---------------------------- MODULE Spec2Model ----------------------------
(***************************************************************************)
(* Model of the Vwire client (src/unnamed/part_001, src/src/Vwire.h,       *)
(* src/src/VwireConfig.h): the connection state machine, the poll loop     *)
(* run() with its heartbeat and reconnect scheduling, and the calls it     *)
(* makes on the transport (PubSubClient) and on the registered handlers;    *)
(* and the handler registry (onVirtualWrite, the declarative table of      *)
(* VWIRE_WRITE) with the inbound router _handleMessage.                    *)
(*                                                                         *)
(* Every public operation is one atomic action (the library is single-     *)
(* threaded and cooperative).  The body of each C++ function is a pure     *)
(* operator from a machine record to a machine record, composed in the     *)
(* order of the source; the calls an operation makes on its collaborators  *)
(* and every assignment to _state are appended, in program order, to the   *)
(* record's trace, which the action publishes in the variable trace.       *)
(***************************************************************************)
EXTENDS Integers, Sequences, FiniteSets, TLC

(***************************************************************************)
(* Bounds of the model.  Time is counted in ticks of the host clock        *)
(* millis(); the intervals of VwireSettings are scaled to a few ticks.     *)
(***************************************************************************)
MaxClock == 4
ClockMod == 16
heartbeatInterval == 3
reconnectInterval == 2
wifiTimeout == 1

(***************************************************************************)
(* The table capacities and the payload buffer, scaled down, and the       *)
(* longest inbound payload looked at.  The number of virtual pins is the   *)
(* program's own, and so are the default ports; the token buffer is        *)
(* scaled down.                                                            *)
(***************************************************************************)
VWIRE_MAX_HANDLERS == 2
VWIRE_MAX_AUTO_HANDLERS == 2
VWIRE_MAX_PAYLOAD_LENGTH == 3
MaxPayloadLen == 3
VWIRE_MAX_VIRTUAL_PINS == 128
VWIRE_MAX_TOKEN_LENGTH == 4
VWIRE_DEFAULT_PORT_TCP == 1883
VWIRE_DEFAULT_PORT_TLS == 8883

VARIABLES
  state,                 \* VwireClass::_state
  lastError,             \* VwireClass::_lastError
  lastHeartbeat,         \* VwireClass::_lastHeartbeat
  lastReconnectAttempt,  \* VwireClass::_lastReconnectAttempt
  authToken,             \* _settings.authToken
  autoReconnect,         \* _settings.autoReconnect
  port,                  \* _settings.port
  transport,             \* _settings.transport
  deviceId,              \* VwireClass::_deviceId
  connectHandler,        \* _connectHandler is set (non-null)
  disconnectHandler,     \* _disconnectHandler is set
  autoConnectHandler,    \* _vwireAutoConnectHandler is set
  autoDisconnectHandler, \* _vwireAutoDisconnectHandler is set
  mqttConnected,         \* what _mqttClient.connected() reports
  wifiConnected,         \* WiFi.status() == WL_CONNECTED
  pinHandlers,           \* _pinHandlers[0 .. _pinHandlerCount-1]
  autoWriteHandlers,     \* _vwireAutoWriteHandlers[0 .. _vwireAutoWriteCount-1]
  messageHandler,        \* _messageHandler is set
  clock,                 \* millis()
  op,                    \* the operation the host called last
  ret,                   \* what it returned (TRUE for void operations)
  trace                  \* the calls and _state assignments it made, in order

vars == <<state, lastError, lastHeartbeat, lastReconnectAttempt, authToken,
          autoReconnect, port, transport, deviceId, connectHandler, disconnectHandler, autoConnectHandler,
          autoDisconnectHandler, mqttConnected, wifiConnected, pinHandlers,
          autoWriteHandlers, messageHandler, clock, op, ret, trace>>

VwireState == {"IDLE", "CONNECTING_WIFI", "CONNECTING_MQTT", "CONNECTED",
               "DISCONNECTED", "ERROR"}

VwireError == {"NONE", "NO_TOKEN", "WIFI_FAILED", "MQTT_FAILED",
               "NOT_CONNECTED", "HANDLER_FULL"}

VwireTransport == {"TCP", "TCP_SSL"}

\* a token of len characters, as a C string
Alphabet == <<"a", "b", "c", "d", "e", "f", "g", "h">>
Token(len) == [i \in 1..len |-> Alphabet[i]]

Tokens == {Token(0), Token(VWIRE_MAX_TOKEN_LENGTH - 1)}

(***************************************************************************)
(* One entry of a trace: a call on a collaborator (the transport, the      *)
(* network layer, a registered handler) or an assignment to _state.        *)
(***************************************************************************)
Ev(call, arg) == [call |-> call, arg |-> arg, payload |-> "", retained |-> FALSE]

Pub(topic, payload, retained) ==
  [call |-> "publish", arg |-> topic, payload |-> payload, retained |-> retained]

Will(topic, payload, retained) ==
  [call |-> "mqtt.connect", arg |-> topic, payload |-> payload, retained |-> retained]

Log(s, e) == [s EXCEPT !.trace = Append(@, e)]

Count(tr, call) == Cardinality({i \in 1..Len(tr) : tr[i].call = call})

(***************************************************************************)
(* The machine record an operation starts from: the fields of the object   *)
(* and of its collaborators that the operation can change.                 *)
(***************************************************************************)
Cur == [state |-> state, lastError |-> lastError,
        lastHeartbeat |-> lastHeartbeat,
        lastReconnectAttempt |-> lastReconnectAttempt,
        mqtt |-> mqttConnected, wifi |-> wifiConnected,
        now |-> clock, ret |-> TRUE, trace |-> <<>>]

setState(s, st) == Log([s EXCEPT !.state = st], Ev("state", st))

setError(s, e) == [s EXCEPT !.lastError = e]

Return(s, r) == [s EXCEPT !.ret = r]

\* faulty variant: the subtraction is signed
Elapsed_signed(now, last) == now - last

\* unsigned long subtraction, as in "now - _lastHeartbeat"
Elapsed(now, last) == (now - last) % ClockMod

\* faulty variant: the transport is not asked
connected_stateOnly(s) == s.state = "CONNECTED"

\* bool VwireClass::connected()
connected(s) == s.state = "CONNECTED" /\ s.mqtt

\* PubSubClient::connect: TRUE at once when the client is connected already
TransportConnect(s, accept) == s.mqtt \/ accept

\* faulty variant: the auto-registered handler only when no manual one is set
NotifyConnect_exclusive(s) ==
  IF connectHandler THEN Log(s, Ev("connectHandler", ""))
  ELSE IF autoConnectHandler THEN Log(s, Ev("autoConnectHandler", "")) ELSE s

\* the two connect notifications, manual registration first
NotifyConnect(s) ==
  LET s1 == IF connectHandler THEN Log(s, Ev("connectHandler", "")) ELSE s
  IN  IF autoConnectHandler THEN Log(s1, Ev("autoConnectHandler", "")) ELSE s1

\* the two disconnect notifications, manual registration first
NotifyDisconnect(s) ==
  LET s1 == IF disconnectHandler THEN Log(s, Ev("disconnectHandler", "")) ELSE s
  IN  IF autoDisconnectHandler THEN Log(s1, Ev("autoDisconnectHandler", "")) ELSE s1

\* "return true" / "return false" of _connectMQTT
JoinReturn(s, r) ==
  Return(Log(s, Ev("connectMQTT.return", IF r THEN "true" ELSE "false")), r)

\* _connectMQTT: "strlen(_settings.authToken) == 0"
tokenEmpty == Len(authToken) = 0

\* faulty variant: the failure is recorded but _state is left as it is
joinFailed_stateLeft(s) == JoinReturn(setError(s, "MQTT_FAILED"), FALSE)

\* _connectMQTT, the transport refused: the else branch
joinFailed(s) == JoinReturn(setState(setError(s, "MQTT_FAILED"), "ERROR"), FALSE)

\* faulty variant: a successful join clears Last Error
joinSucceeded_clearsError(s) ==
  LET s3 == setState(setError([s EXCEPT !.mqtt = TRUE], "NONE"), "CONNECTED")
      s4 == Log(s3, Pub("status", "online", TRUE))
      s5 == Log(s4, Ev("subscribe", "cmd/#"))
      s6 == Log(s5, Ev("startTime", ""))
  IN  JoinReturn(NotifyConnect(s6), TRUE)

\* _connectMQTT, the transport connected: the then branch
joinSucceeded(s) ==
  LET s3 == setState([s EXCEPT !.mqtt = TRUE], "CONNECTED")
      s4 == Log(s3, Pub("status", "online", TRUE))
      s5 == Log(s4, Ev("subscribe", "cmd/#"))
      s6 == Log(s5, Ev("startTime", ""))
  IN  JoinReturn(NotifyConnect(s6), TRUE)

\* faulty variant: an attempt is made without a token
connectMQTT_noTokenCheck(s, accept) ==
  LET s1 == setState(Log(s, Ev("connectMQTT", "")), "CONNECTING_MQTT")
      s2 == Log(s1, Will("status", "offline", TRUE))
  IN  IF TransportConnect(s1, accept) THEN joinSucceeded(s2) ELSE joinFailed(s2)

\* faulty variant: a missing token is a failure like a refused join
connectMQTT_noTokenError(s, accept) ==
  LET s0 == Log(s, Ev("connectMQTT", ""))
  IN  IF tokenEmpty
      THEN JoinReturn(setState(setError(s0, "NO_TOKEN"), "ERROR"), FALSE)
      ELSE
        LET s1 == setState(s0, "CONNECTING_MQTT")
            s2 == Log(s1, Will("status", "offline", TRUE))
        IN  IF TransportConnect(s1, accept) THEN joinSucceeded(s2) ELSE joinFailed(s2)

\* bool VwireClass::_connectMQTT(), the transport accepting the session or not
connectMQTT(s, accept) ==
  LET s0 == Log(s, Ev("connectMQTT", ""))
  IN  IF tokenEmpty
      THEN JoinReturn(setError(s0, "NO_TOKEN"), FALSE)
      ELSE
        LET s1 == setState(s0, "CONNECTING_MQTT")
            s2 == Log(s1, Will("status", "offline", TRUE))
        IN  IF TransportConnect(s1, accept) THEN joinSucceeded(s2) ELSE joinFailed(s2)

\* void VwireClass::_setupClient()
setupClient(s) == Log(s, Ev("setupClient", ""))

\* bool VwireClass::_connectWiFi(ssid, password): the join succeeds after d
\* ticks, or the loop gives up once wifiTimeout has elapsed
connectWiFi(s, joined, d) ==
  LET s1 == Log(setState(s, "CONNECTING_WIFI"), Ev("WiFi.begin", ""))
  IN  IF joined
      THEN Return([s1 EXCEPT !.wifi = TRUE, !.now = s.now + d], TRUE)
      ELSE Return(setState(setError([s1 EXCEPT !.wifi = FALSE,
                                               !.now = s.now + wifiTimeout],
                                    "WIFI_FAILED"), "ERROR"), FALSE)

\* bool VwireClass::begin(ssid, password)
beginWiFi(s, joined, d, accept) ==
  LET s1 == connectWiFi(setupClient(s), joined, d)
  IN  IF ~s1.ret THEN s1 ELSE connectMQTT(s1, accept)

\* faulty variant: the transport is configured before the network is looked at
begin_setupFirst(s, accept) ==
  LET s1 == setupClient(s)
  IN  IF ~s1.wifi
      THEN Return(setError(s1, "WIFI_FAILED"), FALSE)
      ELSE connectMQTT(s1, accept)

\* bool VwireClass::begin()
begin(s, accept) ==
  IF ~s.wifi
  THEN Return(setError(s, "WIFI_FAILED"), FALSE)
  ELSE connectMQTT(setupClient(s), accept)

\* void VwireClass::_sendHeartbeat()
sendHeartbeat(s) ==
  IF ~connected(s) THEN s ELSE Log(s, Pub("heartbeat", "uptime", FALSE))

\* faulty variant: the interval must be exceeded
HeartbeatDue_strict(s) == Elapsed(s.now, s.lastHeartbeat) > heartbeatInterval

\* the test "now - _lastHeartbeat >= _settings.heartbeatInterval"
HeartbeatDue(s) == Elapsed(s.now, s.lastHeartbeat) >= heartbeatInterval

\* faulty variant: an attempt is due at every poll
ReconnectDue_always(s) == TRUE

\* the test "now - _lastReconnectAttempt >= _settings.reconnectInterval"
ReconnectDue(s) == Elapsed(s.now, s.lastReconnectAttempt) >= reconnectInterval

\* _mqttClient.loop(): pumps the receive path; the client may find the
\* session lost while doing so
loop(s, dropped) == Log([s EXCEPT !.mqtt = ~dropped], Ev("loop", ""))

\* faulty variant: a session the pump has lost is handled in the same poll
runConnected_detectDrop(s, dropped) ==
  LET s1 == loop(s, dropped)
      s2 == IF HeartbeatDue(s1)
            THEN sendHeartbeat([s1 EXCEPT !.lastHeartbeat = s1.now])
            ELSE s1
  IN  IF ~s2.mqtt /\ s2.state = "CONNECTED"
      THEN NotifyDisconnect(setState(s2, "DISCONNECTED"))
      ELSE s2

\* faulty variant: the timestamp is taken only when a heartbeat can be sent
runConnected_stampWhenSent(s, dropped) ==
  LET s1 == loop(s, dropped)
  IN  IF HeartbeatDue(s1) /\ connected(s1)
      THEN sendHeartbeat([s1 EXCEPT !.lastHeartbeat = s1.now])
      ELSE s1

\* run(), transport connected: the fast path
runConnected(s, dropped) ==
  LET s1 == loop(s, dropped)
  IN  IF HeartbeatDue(s1)
      THEN sendHeartbeat([s1 EXCEPT !.lastHeartbeat = s1.now])
      ELSE s1

\* faulty variant: every session that is not DISCONNECTED yet is reported lost
detectDisconnect_anyState(s) ==
  IF s.state # "DISCONNECTED"
  THEN NotifyDisconnect(setState(s, "DISCONNECTED"))
  ELSE s

\* faulty variant: the handlers are called and _state stays CONNECTED
detectDisconnect_stateLeft(s) ==
  IF s.state = "CONNECTED" THEN NotifyDisconnect(s) ELSE s

\* run(): the transition to DISCONNECTED of a session found lost
detectDisconnect(s) ==
  IF s.state = "CONNECTED"
  THEN NotifyDisconnect(setState(s, "DISCONNECTED"))
  ELSE s

\* faulty variant: the timestamp is taken at every poll, due or not
attemptReconnect_stampAlways(s, accept) ==
  IF autoReconnect /\ ReconnectDue(s)
  THEN connectMQTT([s EXCEPT !.lastReconnectAttempt = s.now], accept)
  ELSE [s EXCEPT !.lastReconnectAttempt = s.now]

\* faulty variant: the timestamp is taken only when the attempt succeeds
attemptReconnect_stampOnSuccess(s, accept) ==
  IF autoReconnect /\ ReconnectDue(s)
  THEN LET r == connectMQTT(s, accept)
       IN  IF r.ret THEN [r EXCEPT !.lastReconnectAttempt = s.now] ELSE r
  ELSE s

\* faulty variant: no join is attempted before begin has left IDLE
attemptReconnect_notFromIdle(s, accept) ==
  IF autoReconnect /\ ReconnectDue(s) /\ s.state # "IDLE"
  THEN connectMQTT([s EXCEPT !.lastReconnectAttempt = s.now], accept)
  ELSE s

\* faulty variant: after a failed join no further join is attempted
attemptReconnect_notFromError(s, accept) ==
  IF autoReconnect /\ ReconnectDue(s) /\ s.state # "ERROR"
  THEN connectMQTT([s EXCEPT !.lastReconnectAttempt = s.now], accept)
  ELSE s

\* faulty variant: a session the host has closed is not rejoined
attemptReconnect_notAfterDisconnect(s, accept) ==
  IF autoReconnect /\ ReconnectDue(s) /\ s.state # "DISCONNECTED"
  THEN connectMQTT([s EXCEPT !.lastReconnectAttempt = s.now], accept)
  ELSE s

\* faulty variant: the auto-reconnect flag is not looked at
attemptReconnect_ignoreFlag(s, accept) ==
  IF ReconnectDue(s)
  THEN connectMQTT([s EXCEPT !.lastReconnectAttempt = s.now], accept)
  ELSE s

\* run(), transport not connected and WiFi up: "Attempt reconnect"
attemptReconnect(s, accept) ==
  IF autoReconnect /\ ReconnectDue(s)
  THEN connectMQTT([s EXCEPT !.lastReconnectAttempt = s.now], accept)
  ELSE s

\* faulty variant: a reconnect is attempted though the network is down
run_noNetworkTest(s, dropped, accept) ==
  IF s.mqtt
  THEN Return(runConnected(s, dropped), TRUE)
  ELSE Return(attemptReconnect(detectDisconnect(Log(s, Ev("yield", ""))), accept), TRUE)

\* faulty variant: a poll that has rejoined goes on to the connected path
run_heartbeatAfterJoin(s, dropped, accept) ==
  IF s.mqtt
  THEN Return(runConnected(s, dropped), TRUE)
  ELSE
    LET s1 == Log(s, Ev("yield", ""))
    IN  IF ~s1.wifi
        THEN Return(detectDisconnect(s1), TRUE)
        ELSE LET s2 == attemptReconnect(detectDisconnect(s1), accept)
             IN  Return(IF s2.mqtt THEN runConnected(s2, dropped) ELSE s2, TRUE)

\* void VwireClass::run()
run(s, dropped, accept) ==
  IF s.mqtt
  THEN Return(runConnected(s, dropped), TRUE)
  ELSE
    LET s1 == Log(s, Ev("yield", ""))
    IN  IF ~s1.wifi
        THEN Return(detectDisconnect(s1), TRUE)
        ELSE Return(attemptReconnect(detectDisconnect(s1), accept), TRUE)

\* faulty variant: the status is published but the transport is left open
disconnect_leavesTransport(s) ==
  LET s1 == IF s.mqtt THEN Log(s, Pub("status", "offline", TRUE)) ELSE s
  IN  setState(s1, "DISCONNECTED")

\* faulty variant: _state is set only when no session was live
disconnect_stateLeft(s) ==
  IF s.mqtt
  THEN Log([Log(s, Pub("status", "offline", TRUE)) EXCEPT !.mqtt = FALSE],
           Ev("mqtt.disconnect", ""))
  ELSE setState(s, "DISCONNECTED")

\* void VwireClass::disconnect()
disconnect(s) ==
  LET s1 == IF s.mqtt
            THEN Log([Log(s, Pub("status", "offline", TRUE)) EXCEPT !.mqtt = FALSE],
                     Ev("mqtt.disconnect", ""))
            ELSE s
  IN  setState(s1, "DISCONNECTED")

JoinAttempted(tr) == Count(tr, "connectMQTT") > 0

(***************************************************************************)
(* The handler registry and the inbound router.  A topic and a payload are *)
(* sequences of characters; a callback is named by a string, NULL being    *)
(* the null pointer.  A call of a callback is logged with the table it was *)
(* found in, the topic (for the raw-message observer) and the payload      *)
(* string it is given.                                                     *)
(***************************************************************************)
NULL == "NULL"

Rx(call, handler, topic, payload) ==
  [call |-> call, handler |-> handler, topic |-> topic, payload |-> payload]

\* the machine record of the registry operations
RCur == [state |-> state, lastError |-> lastError, pinHandlers |-> pinHandlers,
         autoWriteHandlers |-> autoWriteHandlers, trace |-> <<>>]

Min(a, b) == IF a <= b THEN a ELSE b

DecimalDigits == <<"0", "1", "2", "3", "4", "5", "6", "7", "8", "9">>

isdigit(ch) == \E i \in 1..10 : DecimalDigits[i] = ch

isspace(ch) == ch = " "

DigitValue(ch) == (CHOOSE i \in 1..10 : DecimalDigits[i] = ch) - 1

RECURSIVE atoiDigits(_, _)
atoiDigits(str, acc) ==
  IF str = <<>> \/ ~isdigit(Head(str))
  THEN acc
  ELSE atoiDigits(Tail(str), acc * 10 + DigitValue(Head(str)))

RECURSIVE skipSpace(_)
skipSpace(str) ==
  IF str # <<>> /\ isspace(Head(str)) THEN skipSpace(Tail(str)) ELSE str

\* int atoi(const char*): white space, an optional sign, then the leading
\* decimal digits; 0 when there are none
atoi(str) ==
  LET s1 == skipSpace(str)
  IN  IF s1 = <<>> THEN 0
      ELSE IF Head(s1) = "-" THEN 0 - atoiDigits(Tail(s1), 0)
      ELSE IF Head(s1) = "+" THEN atoiDigits(Tail(s1), 0)
      ELSE atoiDigits(s1, 0)

\* char* strstr(hay, needle): the position of the first occurrence, 0 for
\* a null result
strstr(hay, needle) ==
  LET at == {i \in 1..(Len(hay) - Len(needle) + 1) :
               SubSeq(hay, i, i + Len(needle) - 1) = needle}
  IN  IF at = {} THEN 0 ELSE CHOOSE i \in at : \A j \in at : i <= j

CmdMarker == <<"/", "c", "m", "d", "/">>

\* faulty variant: the buffer is filled, the terminator written past its end
payloadStr_whole(payload) ==
  SubSeq(payload, 1, Min(VWIRE_MAX_PAYLOAD_LENGTH, Len(payload)))

\* _handleMessage: the payload copied into payloadStr and terminated
payloadStr(payload) ==
  SubSeq(payload, 1, Min(VWIRE_MAX_PAYLOAD_LENGTH - 1, Len(payload)))

\* faulty variant: only the upper-case prefix is skipped
parsePin_upperOnly(pinStr) ==
  IF Head(pinStr) = "V" THEN atoi(Tail(pinStr)) ELSE atoi(pinStr)

\* _handleMessage: "Parse pin number (handle V prefix)"
parsePin(pinStr) ==
  IF Head(pinStr) = "V" \/ Head(pinStr) = "v" THEN atoi(Tail(pinStr)) ELSE atoi(pinStr)

\* faulty variant: the loop runs to the end, the last matching entry is called
LastMatch(table, pin, usesActive) ==
  LET at == {i \in 1..Len(table) :
               (usesActive => table[i].active) /\ table[i].pin = pin}
  IN  IF at = {} THEN 0 ELSE CHOOSE i \in at : \A j \in at : i >= j

\* int VirtualPin::asInt(): String::toInt
asInt(value) == atoi(value)

\* faulty variant: the loop goes past an entry whose callback is null
FirstMatch_skipNull(table, pin, usesActive) ==
  LET at == {i \in 1..Len(table) :
               /\ usesActive => table[i].active
               /\ table[i].pin = pin
               /\ table[i].handler # NULL}
  IN  IF at = {} THEN 0 ELSE CHOOSE i \in at : \A j \in at : i <= j

\* the first entry of a table the loop stops at, 0 when it runs to the end
FirstMatch(table, pin, usesActive) ==
  LET at == {i \in 1..Len(table) :
               (usesActive => table[i].active) /\ table[i].pin = pin}
  IN  IF at = {} THEN 0 ELSE CHOOSE i \in at : \A j \in at : i <= j

CallHandler(s, table, h, vpin) ==
  IF h # NULL THEN Log(s, Rx(table, h, <<>>, vpin)) ELSE s

\* faulty variant: the declarative table is looked at first
dispatch_autoFirst(s, pin, vpin) ==
  LET i == FirstMatch(s.pinHandlers, pin, TRUE)
      j == FirstMatch(s.autoWriteHandlers, pin, FALSE)
  IN  IF j # 0 THEN CallHandler(s, "autoWriteHandlers", s.autoWriteHandlers[j].handler, vpin)
      ELSE IF i # 0 THEN CallHandler(s, "pinHandlers", s.pinHandlers[i].handler, vpin)
      ELSE s

\* _handleMessage: the two loops over the tables, the explicit one first
dispatch(s, pin, vpin) ==
  LET i == FirstMatch(s.pinHandlers, pin, TRUE)
      j == FirstMatch(s.autoWriteHandlers, pin, FALSE)
  IN  IF i # 0 THEN CallHandler(s, "pinHandlers", s.pinHandlers[i].handler, vpin)
      ELSE IF j # 0 THEN CallHandler(s, "autoWriteHandlers", s.autoWriteHandlers[j].handler, vpin)
      ELSE s

\* faulty variant: the range of the pin is not tested
routeCommand_noRangeTest(s, topic, vpin) ==
  LET cmdPos == strstr(topic, CmdMarker)
      pinStr == SubSeq(topic, cmdPos + 5, Len(topic))
  IN  IF cmdPos = 0 \/ pinStr = <<>> THEN s
      ELSE LET pin == parsePin(pinStr)
           IN  IF pin >= 0 THEN dispatch(s, pin, vpin) ELSE s

\* _handleMessage from "Fast parse" on
routeCommand(s, topic, vpin) ==
  LET cmdPos == strstr(topic, CmdMarker)
      pinStr == SubSeq(topic, cmdPos + 5, Len(topic))
  IN  IF cmdPos = 0 \/ pinStr = <<>> THEN s
      ELSE LET pin == parsePin(pinStr)
           IN  IF pin >= 0 /\ pin < VWIRE_MAX_VIRTUAL_PINS
               THEN dispatch(s, pin, vpin)
               ELSE s

\* faulty variant: the observer is called for command topics only
handleMessage_observeCommands(s, topic, payload) ==
  LET str == payloadStr(payload)
      s1 == IF messageHandler /\ strstr(topic, CmdMarker) # 0
            THEN Log(s, Rx("messageHandler", "messageHandler", topic, str))
            ELSE s
  IN  routeCommand(s1, topic, str)

\* void VwireClass::_handleMessage(topic, payload, length)
handleMessage(s, topic, payload) ==
  LET str == payloadStr(payload)
      s1 == IF messageHandler
            THEN Log(s, Rx("messageHandler", "messageHandler", topic, str))
            ELSE s
  IN  routeCommand(s1, topic, str)

\* faulty variant: at capacity the last entry is replaced
onVirtualWrite_replaceLast(s, pin, handler) ==
  LET e == [pin |-> pin, handler |-> handler, active |-> TRUE]
  IN  IF Len(s.pinHandlers) >= VWIRE_MAX_HANDLERS
      THEN [setError(s, "HANDLER_FULL") EXCEPT
              !.pinHandlers = [@ EXCEPT ![VWIRE_MAX_HANDLERS] = e]]
      ELSE [s EXCEPT !.pinHandlers = Append(@, e)]

\* void VwireClass::onVirtualWrite(pin, handler)
onVirtualWrite(s, pin, handler) ==
  IF Len(s.pinHandlers) >= VWIRE_MAX_HANDLERS
  THEN setError(s, "HANDLER_FULL")
  ELSE [s EXCEPT !.pinHandlers =
          Append(@, [pin |-> pin, handler |-> handler, active |-> TRUE])]

\* faulty variant: a refused declarative registration records HANDLER_FULL
vwireRegisterWriteHandler_setsError(s, pin, handler) ==
  IF Len(s.autoWriteHandlers) < VWIRE_MAX_AUTO_HANDLERS
  THEN [s EXCEPT !.autoWriteHandlers = Append(@, [pin |-> pin, handler |-> handler])]
  ELSE setError(s, "HANDLER_FULL")

\* faulty variant: a full declarative table is written from its start again
vwireRegisterWriteHandler_wrap(s, pin, handler) ==
  IF Len(s.autoWriteHandlers) < VWIRE_MAX_AUTO_HANDLERS
  THEN [s EXCEPT !.autoWriteHandlers = Append(@, [pin |-> pin, handler |-> handler])]
  ELSE [s EXCEPT !.autoWriteHandlers =
          [@ EXCEPT ![1] = [pin |-> pin, handler |-> handler]]]

\* void _vwireRegisterWriteHandler(pin, handler)
vwireRegisterWriteHandler(s, pin, handler) ==
  IF Len(s.autoWriteHandlers) < VWIRE_MAX_AUTO_HANDLERS
  THEN [s EXCEPT !.autoWriteHandlers = Append(@, [pin |-> pin, handler |-> handler])]
  ELSE s

(***************************************************************************)
(* The outbound operations.  Each publishes one message on a topic of the  *)
(* device, named here by its kind; a channel write uses the retain flag of *)
(* the settings, false unless the host sets it.                            *)
(***************************************************************************)
\* faulty variant: a write on a closed session is dropped silently
virtualWriteInternal_silent(s, pin, value) ==
  IF ~connected(s) THEN s ELSE Log(s, Pub("pin", value, FALSE))

\* void VwireClass::_virtualWriteInternal(pin, value)
virtualWriteInternal(s, pin, value) ==
  IF ~connected(s)
  THEN setError(s, "NOT_CONNECTED")
  ELSE Log(s, Pub("pin", value, FALSE))

\* void VwireClass::syncVirtual(pin)
syncVirtual(s, pin) == IF ~connected(s) THEN s ELSE Log(s, Pub("sync", "", FALSE))

\* void VwireClass::syncAll()
syncAll(s) == IF ~connected(s) THEN s ELSE Log(s, Pub("sync", "all", FALSE))

\* faulty variant: only _state is looked at
notify_stateOnly(s, message) ==
  IF s.state # "CONNECTED" THEN s ELSE Log(s, Pub("notify", message, FALSE))

\* void VwireClass::notify(message)
notify(s, message) ==
  IF ~connected(s) THEN s ELSE Log(s, Pub("notify", message, FALSE))

\* void VwireClass::email(subject, body); the JSON text is named by its subject
email(s, subject, body) ==
  IF ~connected(s) THEN s ELSE Log(s, Pub("email", subject, FALSE))

\* void VwireClass::log(message)
log(s, message) == IF ~connected(s) THEN s ELSE Log(s, Pub("log", message, FALSE))

(***************************************************************************)
(* Configuration.  The operations act on the settings, the identity and,   *)
(* to show what they leave alone, _state and _lastError.                   *)
(***************************************************************************)
CfgCur == [state |-> state, lastError |-> lastError, authToken |-> authToken,
           autoReconnect |-> autoReconnect, port |-> port,
           transport |-> transport, deviceId |-> deviceId]

\* strncpy(dst, src, n) into a zeroed buffer of n + 1 bytes, read back as a
\* C string
strncpy(src, n) == SubSeq(src, 1, Min(Len(src), n))

\* faulty variant: only the library's own TLS port selects TLS
transportFor_defaultPortOnly(p) ==
  IF p = VWIRE_DEFAULT_PORT_TLS THEN "TCP_SSL" ELSE "TCP"

\* config(authToken, server, port): "Auto-select transport based on port"
transportFor(p) == IF p = 8883 \/ p = 443 THEN "TCP_SSL" ELSE "TCP"

\* void VwireClass::config(const char* authToken, const char* server,
\*                         uint16_t port)
config(s, token, p) ==
  [s EXCEPT !.authToken = strncpy(token, VWIRE_MAX_TOKEN_LENGTH - 1),
            !.port = p,
            !.transport = transportFor(p),
            !.deviceId = strncpy(token, VWIRE_MAX_TOKEN_LENGTH - 1)]

\* void VwireClass::config(const char* authToken)
configToken(s, token) == config(s, token, VWIRE_DEFAULT_PORT_TLS)

\* void VwireClass::config(const VwireSettings& settings)
configSettings(s, settings) ==
  [s EXCEPT !.authToken = settings.authToken,
            !.autoReconnect = settings.autoReconnect,
            !.port = settings.port,
            !.transport = settings.transport,
            !.deviceId = strncpy(settings.authToken, VWIRE_MAX_TOKEN_LENGTH - 1)]

\* void VwireClass::setTransport(VwireTransport transport)
setTransport(s, t) == [s EXCEPT !.transport = t]


(***************************************************************************)
(* The actions: one per operation of the host, and the environment.        *)
(***************************************************************************)
Commit(name, s) ==
  /\ state' = s.state
  /\ lastError' = s.lastError
  /\ lastHeartbeat' = s.lastHeartbeat
  /\ lastReconnectAttempt' = s.lastReconnectAttempt
  /\ mqttConnected' = s.mqtt
  /\ wifiConnected' = s.wifi
  /\ clock' = s.now
  /\ op' = name
  /\ ret' = s.ret
  /\ trace' = s.trace

Settings == <<authToken, autoReconnect, port, transport, deviceId>>
Handlers == <<connectHandler, disconnectHandler, autoConnectHandler,
              autoDisconnectHandler, pinHandlers, autoWriteHandlers,
              messageHandler>>

Init ==
  /\ state = "IDLE"
  /\ lastError = "NONE"
  /\ lastHeartbeat = 0
  /\ lastReconnectAttempt = 0
  /\ authToken = <<>>
  /\ autoReconnect = TRUE
  /\ port = VWIRE_DEFAULT_PORT_TLS
  /\ transport = "TCP_SSL"
  /\ deviceId = <<>>
  /\ connectHandler \in BOOLEAN
  /\ disconnectHandler = connectHandler
  /\ autoConnectHandler \in BOOLEAN
  /\ autoDisconnectHandler = autoConnectHandler
  /\ mqttConnected = FALSE
  /\ wifiConnected \in BOOLEAN
  /\ pinHandlers = <<>>
  /\ autoWriteHandlers = <<>>
  /\ messageHandler = FALSE
  /\ clock = 0
  /\ op = "init"
  /\ ret = TRUE
  /\ trace = <<>>

\* Vwire.config(authToken)
Config ==
  /\ \E t \in Tokens :
       LET c == configToken(CfgCur, t)
       IN  /\ authToken' = c.authToken
           /\ port' = c.port
           /\ transport' = c.transport
           /\ deviceId' = c.deviceId
           /\ Commit("env", [Cur EXCEPT !.state = c.state,
                                        !.lastError = c.lastError])
  /\ UNCHANGED <<autoReconnect, Handlers>>

\* Vwire.setAutoReconnect(enable)
SetAutoReconnect ==
  /\ \E b \in BOOLEAN : autoReconnect' = b
  /\ Commit("env", Cur)
  /\ UNCHANGED <<authToken, port, transport, deviceId, Handlers>>

\* Vwire.begin(ssid, password)
BeginWiFi ==
  /\ \E joined \in BOOLEAN, accept \in BOOLEAN, d \in 0..(wifiTimeout - 1) :
       /\ clock + wifiTimeout <= MaxClock
       /\ Commit("beginWiFi", beginWiFi(Cur, joined, d, accept))
  /\ UNCHANGED <<Settings, Handlers>>

\* Vwire.begin()
Begin ==
  /\ \E accept \in BOOLEAN : Commit("begin", begin(Cur, accept))
  /\ UNCHANGED <<Settings, Handlers>>

\* Vwire.run()
Run ==
  /\ \E dropped \in BOOLEAN, accept \in BOOLEAN :
       Commit("run", run(Cur, dropped, accept))
  /\ UNCHANGED <<Settings, Handlers>>

\* Vwire.connected()
Connected ==
  /\ Commit("connected", Return(Cur, connected(Cur)))
  /\ UNCHANGED <<Settings, Handlers>>

\* Vwire.disconnect()
Disconnect ==
  /\ Commit("disconnect", disconnect(Cur))
  /\ UNCHANGED <<Settings, Handlers>>

\* the host clock advances
Tick ==
  /\ clock < MaxClock
  /\ Commit("env", [Cur EXCEPT !.now = clock + 1])
  /\ UNCHANGED <<Settings, Handlers>>

\* the transport loses the session (broker down, keepalive timeout)
TransportDrop ==
  /\ mqttConnected
  /\ Commit("env", [Cur EXCEPT !.mqtt = FALSE])
  /\ UNCHANGED <<Settings, Handlers>>

\* the network layer joins or leaves the network outside the library
WiFiChange ==
  /\ Commit("env", [Cur EXCEPT !.wifi = ~wifiConnected])
  /\ UNCHANGED <<Settings, Handlers>>

Next ==
  \/ Config
  \/ SetAutoReconnect
  \/ BeginWiFi
  \/ Begin
  \/ Run
  \/ Connected
  \/ Disconnect
  \/ Tick
  \/ TransportDrop
  \/ WiFiChange

Spec == Init /\ [][Next]_vars

(***************************************************************************)
(* The same machine with a host that calls begin (either form) only when   *)
(* no session is live.                                                     *)
(***************************************************************************)
BeginWiFiFresh == ~mqttConnected /\ BeginWiFi

BeginFresh == ~mqttConnected /\ Begin

FreshNext ==
  \/ Config
  \/ SetAutoReconnect
  \/ BeginWiFiFresh
  \/ BeginFresh
  \/ Run
  \/ Connected
  \/ Disconnect
  \/ Tick
  \/ TransportDrop
  \/ WiFiChange

FreshSpec == Init /\ [][FreshNext]_vars

(***************************************************************************)
(* A host that never calls begin: it configures, polls and disconnects,    *)
(* the network being joined outside the library.                           *)
(***************************************************************************)
PollNext ==
  \/ Config
  \/ SetAutoReconnect
  \/ Run
  \/ Disconnect
  \/ Tick
  \/ TransportDrop
  \/ WiFiChange

PollSpec == Init /\ [][PollNext]_vars

(***************************************************************************)
(* Automatic recovery.  The session has been lost or a join has failed     *)
(* (at any clock value, the last attempt made at any earlier one); the     *)
(* token is set, auto-reconnect is enabled, the network stays joined and   *)
(* the transport refuses or accepts each join.  The host polls at least    *)
(* once between two ticks of the clock, which wraps as an unsigned long.   *)
(***************************************************************************)
LiveInit ==
  /\ state \in {"DISCONNECTED", "ERROR"}
  /\ lastError = IF state = "ERROR" THEN "MQTT_FAILED" ELSE "NONE"
  /\ lastHeartbeat = 0
  /\ lastReconnectAttempt \in 0..(ClockMod - 1)
  /\ authToken = Token(VWIRE_MAX_TOKEN_LENGTH - 1)
  /\ port = VWIRE_DEFAULT_PORT_TLS
  /\ transport = "TCP_SSL"
  /\ deviceId = authToken
  /\ autoReconnect = TRUE
  /\ connectHandler \in BOOLEAN
  /\ disconnectHandler = connectHandler
  /\ autoConnectHandler \in BOOLEAN
  /\ autoDisconnectHandler = autoConnectHandler
  /\ mqttConnected = FALSE
  /\ wifiConnected = TRUE
  /\ pinHandlers = <<>>
  /\ autoWriteHandlers = <<>>
  /\ messageHandler = FALSE
  /\ clock \in 0..(ClockMod - 1)
  /\ op = "init"
  /\ ret = TRUE
  /\ trace = <<>>

\* Vwire.run(): a fast-path poll, a poll with no join due, or a join the
\* transport refuses
LivePoll ==
  /\ \E dropped, accept \in BOOLEAN :
       /\ mqttConnected \/ ~ReconnectDue(Cur) \/ ~accept
       /\ Commit("run", run(Cur, dropped, accept))
  /\ UNCHANGED <<Settings, Handlers>>

\* Vwire.run(): a join is due and the transport accepts it
LiveJoin ==
  /\ ~mqttConnected
  /\ ReconnectDue(Cur)
  /\ Commit("run", run(Cur, FALSE, TRUE))
  /\ UNCHANGED <<Settings, Handlers>>

\* the host clock advances, after a poll
LiveTick ==
  /\ op = "run"
  /\ Commit("env", [Cur EXCEPT !.now = (clock + 1) % ClockMod])
  /\ UNCHANGED <<Settings, Handlers>>

LiveNext ==
  \/ LivePoll
  \/ LiveJoin
  \/ LiveTick

\* the host keeps polling, the clock keeps advancing, and of the joins
\* attempted again and again one is accepted
LiveSpec ==
  /\ LiveInit
  /\ [][LiveNext]_vars
  /\ WF_vars(LivePoll)
  /\ WF_vars(LiveTick)
  /\ SF_vars(LiveJoin)

(***************************************************************************)
(* Reconfiguration.  The three forms of config and setTransport, with      *)
(* tokens up to one character longer than the buffer and ports with and    *)
(* without TLS, between begin() and disconnect().                          *)
(***************************************************************************)
MaxTokenLen == VWIRE_MAX_TOKEN_LENGTH + 1
ConfigTokens == {Token(len) : len \in 0..MaxTokenLen} \cup {<<"x", "y">>}
Ports == {VWIRE_DEFAULT_PORT_TCP, VWIRE_DEFAULT_PORT_TLS, 443, 80}

\* a VwireSettings the host has filled in: the token fits its buffer
SettingsInputs ==
  [authToken : {t \in ConfigTokens : Len(t) < VWIRE_MAX_TOKEN_LENGTH},
   autoReconnect : BOOLEAN, port : Ports, transport : VwireTransport]

CfgCommit(name, c) ==
  /\ state' = c.state
  /\ lastError' = c.lastError
  /\ authToken' = c.authToken
  /\ autoReconnect' = c.autoReconnect
  /\ port' = c.port
  /\ transport' = c.transport
  /\ deviceId' = c.deviceId
  /\ op' = name
  /\ ret' = TRUE
  /\ trace' = <<>>

Session == <<lastHeartbeat, lastReconnectAttempt, mqttConnected,
             wifiConnected, clock>>

\* Vwire.config(authToken)
ConfigToken ==
  /\ \E t \in ConfigTokens : CfgCommit("configToken", configToken(CfgCur, t))
  /\ UNCHANGED <<Session, Handlers>>

\* Vwire.config(authToken, server, port)
ConfigServerPort ==
  /\ \E t \in ConfigTokens, p \in Ports :
       CfgCommit("config", config(CfgCur, t, p))
  /\ UNCHANGED <<Session, Handlers>>

\* Vwire.config(settings)
ConfigSettings ==
  /\ \E st \in SettingsInputs :
       CfgCommit("configSettings", configSettings(CfgCur, st))
  /\ UNCHANGED <<Session, Handlers>>

\* Vwire.setTransport(transport)
SetTransport ==
  /\ \E t \in VwireTransport :
       CfgCommit("setTransport", setTransport(CfgCur, t))
  /\ UNCHANGED <<Session, Handlers>>

ConfigNext ==
  \/ ConfigToken
  \/ ConfigServerPort
  \/ ConfigSettings
  \/ SetTransport
  \/ Begin
  \/ Disconnect

ConfigSpec == Init /\ [][ConfigNext]_vars

TypeOK ==
  /\ state \in VwireState
  /\ port \in Ports
  /\ transport \in VwireTransport
  /\ deviceId \in ConfigTokens
  /\ Len(deviceId) < VWIRE_MAX_TOKEN_LENGTH
  /\ lastError \in VwireError
  /\ lastHeartbeat \in 0..MaxClock
  /\ lastReconnectAttempt \in 0..MaxClock
  /\ authToken \in ConfigTokens
  /\ Len(authToken) < VWIRE_MAX_TOKEN_LENGTH
  /\ clock \in 0..MaxClock

(***************************************************************************)
(* The registry and the router on a session that begin() has brought up:   *)
(* the registrations, and the transport's callback for an inbound message. *)
(* The inputs are drawn from small sets: two specifications, one with many *)
(* registrations and few messages, one with few registrations and many     *)
(* messages.                                                               *)
(***************************************************************************)
Pins == {0, 7}

TopicPrefix == <<"d">>

RECURSIVE Decimal(_)
Decimal(n) ==
  IF n < 10 THEN <<DecimalDigits[n + 1]>>
  ELSE Decimal(n \div 10) \o <<DecimalDigits[(n % 10) + 1]>>

\* the topic of a command: the marker, then the channel suffix
CmdTopic(prefix, suffix) == TopicPrefix \o CmdMarker \o prefix \o suffix

StatusTopic == TopicPrefix \o <<"/", "s">>

ChannelPrefixes == {<<"V">>, <<"v">>, <<>>}

OutOfRangeTopics ==
  {CmdTopic(<<"V">>, Decimal(VWIRE_MAX_VIRTUAL_PINS)), CmdTopic(<<"V">>, Decimal(999)),
   CmdTopic(<<>>, <<"-", "1">>)}

NoDigitTopics ==
  {CmdTopic(<<"V">>, <<>>), CmdTopic(<<"V">>, <<"x">>), CmdTopic(<<>>, <<"x">>)}

ChannelTopics == {CmdTopic(l, Decimal(c)) : l \in ChannelPrefixes, c \in Pins}

Topics ==
  {StatusTopic, CmdTopic(<<>>, <<>>)} \cup ChannelTopics \cup OutOfRangeTopics
    \cup NoDigitTopics

\* a payload of the given length, its characters telling the length
Payload(len) == [i \in 1..len |-> DecimalDigits[((len + i) % 10) + 1]]

FortyTwo == <<"4", "2">>

Payloads == {Payload(len) : len \in 0..MaxPayloadLen} \cup {FortyTwo}

RegistryExplicit == {<<0, "f">>, <<7, "f">>, <<7, "g">>, <<7, NULL>>}
RegistryAuto == {<<0, "a">>, <<7, "a">>, <<7, "b">>}
RegistryTopics == {CmdTopic(<<"V">>, Decimal(c)) : c \in Pins}
RegistryPayloads == {Payload(2)}

\* the payloads the registry claims are checked with: none, and the longest
EdgePayloads == {Payload(0), Payload(MaxPayloadLen)}

RouterExplicit == {<<7, "f">>, <<VWIRE_MAX_VIRTUAL_PINS, "f">>}
RouterAuto == {<<0, "a">>}

RCommit(name, s) ==
  /\ state' = s.state
  /\ lastError' = s.lastError
  /\ pinHandlers' = s.pinHandlers
  /\ autoWriteHandlers' = s.autoWriteHandlers
  /\ op' = name
  /\ ret' = TRUE
  /\ trace' = s.trace
  /\ UNCHANGED <<lastHeartbeat, lastReconnectAttempt, mqttConnected, wifiConnected,
                 clock, Settings, connectHandler, disconnectHandler,
                 autoConnectHandler, autoDisconnectHandler>>

\* a token configured and begin() returned true: the session is up
RouterInit ==
  /\ state = "CONNECTED"
  /\ lastError = "NONE"
  /\ lastHeartbeat = 0
  /\ lastReconnectAttempt = 0
  /\ authToken = Token(VWIRE_MAX_TOKEN_LENGTH - 1)
  /\ port = VWIRE_DEFAULT_PORT_TLS
  /\ transport = "TCP_SSL"
  /\ deviceId = authToken
  /\ autoReconnect = TRUE
  /\ connectHandler = FALSE
  /\ disconnectHandler = FALSE
  /\ autoConnectHandler = FALSE
  /\ autoDisconnectHandler = FALSE
  /\ mqttConnected = TRUE
  /\ wifiConnected = TRUE
  /\ pinHandlers = <<>>
  /\ autoWriteHandlers = <<>>
  /\ messageHandler = FALSE
  /\ clock = 0
  /\ op = "init"
  /\ ret = TRUE
  /\ trace = <<>>

\* Vwire.onVirtualWrite(pin, handler)
OnVirtualWrite(inputs) ==
  /\ \E in \in inputs : RCommit("onVirtualWrite", onVirtualWrite(RCur, in[1], in[2]))
  /\ UNCHANGED messageHandler

\* VWIRE_WRITE(pin): _vwireRegisterWriteHandler(pin, handler)
RegisterWriteHandler(inputs) ==
  /\ \E in \in inputs :
       RCommit("registerWriteHandler", vwireRegisterWriteHandler(RCur, in[1], in[2]))
  /\ UNCHANGED messageHandler

\* Vwire.onMessage(handler), the handler null or not
OnMessage ==
  /\ \E set \in BOOLEAN : messageHandler' = set
  /\ RCommit("onMessage", RCur)

\* the transport's callback: _mqttCallbackWrapper(topic, payload, length)
HandleMessage(topics, payloads) ==
  /\ mqttConnected
  /\ \E topic \in topics, payload \in payloads :
       RCommit("handleMessage", handleMessage(RCur, topic, payload))
  /\ UNCHANGED messageHandler

RegistryNext ==
  \/ OnVirtualWrite(RegistryExplicit)
  \/ RegisterWriteHandler(RegistryAuto)
  \/ OnMessage
  \/ HandleMessage(RegistryTopics, RegistryPayloads)

RegistrySpec == RouterInit /\ [][RegistryNext]_vars

RouterNext ==
  \/ OnVirtualWrite(RouterExplicit)
  \/ RegisterWriteHandler(RouterAuto)
  \/ OnMessage
  \/ HandleMessage(Topics, Payloads)

RouterSpec == RouterInit /\ [][RouterNext]_vars

(***************************************************************************)
(* The tables over a whole session: registrations before and after the     *)
(* session starts, mixed with config, begin, polls, inbound messages and   *)
(* disconnect, from the state after construction.                          *)
(***************************************************************************)
TableExplicit == {<<7, "f">>, <<0, NULL>>}
TableAuto == {<<7, "a">>, <<0, "b">>}

TableNext ==
  \/ OnVirtualWrite(TableExplicit)
  \/ RegisterWriteHandler(TableAuto)
  \/ HandleMessage(RegistryTopics, RegistryPayloads)
  \/ Config
  \/ Begin
  \/ Run
  \/ Disconnect

TableSpec == Init /\ [][TableNext]_vars

(***************************************************************************)
(* Sending.  The outbound operations called at any point of a session:     *)
(* before begin, while the session is up, after the transport has dropped  *)
(* and after a begin that failed on a live session.                        *)
(***************************************************************************)
Values == {"1"}

\* Vwire.virtualWrite(pin, value) and its array and format forms
VirtualWrite ==
  /\ \E pin \in Pins, value \in Values :
       Commit("virtualWrite", virtualWriteInternal(Cur, pin, value))
  /\ UNCHANGED <<Settings, Handlers>>

\* Vwire.syncVirtual(pin)
SyncVirtual ==
  /\ \E pin \in Pins : Commit("syncVirtual", syncVirtual(Cur, pin))
  /\ UNCHANGED <<Settings, Handlers>>

\* Vwire.syncAll()
SyncAll ==
  /\ Commit("syncAll", syncAll(Cur))
  /\ UNCHANGED <<Settings, Handlers>>

\* Vwire.notify(message)
Notify ==
  /\ \E message \in Values : Commit("notify", notify(Cur, message))
  /\ UNCHANGED <<Settings, Handlers>>

\* Vwire.email(subject, body)
Email ==
  /\ \E subject \in Values, body \in Values :
       Commit("email", email(Cur, subject, body))
  /\ UNCHANGED <<Settings, Handlers>>

\* Vwire.log(message)
LogMessage ==
  /\ \E message \in Values : Commit("log", log(Cur, message))
  /\ UNCHANGED <<Settings, Handlers>>

SendNext ==
  \/ Config
  \/ BeginWiFi
  \/ Begin
  \/ Run
  \/ Disconnect
  \/ Tick
  \/ TransportDrop
  \/ VirtualWrite
  \/ SyncVirtual
  \/ SyncAll
  \/ Notify
  \/ Email
  \/ LogMessage

SendSpec == Init /\ [][SendNext]_vars

(***************************************************************************)
(* What the claims speak of.  A claim about an operation is stated on the  *)
(* operation's result from the current state, for every input it can be    *)
(* given, so that it is checked for every call the host can make in every  *)
(* reachable state.                                                        *)
(***************************************************************************)
\* the machine record of a result, as the next operation finds it
Settled(r) == [r EXCEPT !.trace = <<>>, !.ret = TRUE]

RunResults == {run(Cur, dropped, accept) : dropped \in BOOLEAN, accept \in BOOLEAN}

BeginResults ==
  {begin(Cur, accept) : accept \in BOOLEAN}
    \cup {beginWiFi(Cur, joined, d, accept) :
            joined \in BOOLEAN, d \in 0..(wifiTimeout - 1), accept \in BOOLEAN}

Heartbeats(tr) ==
  Cardinality({i \in 1..Len(tr) : tr[i].call = "publish" /\ tr[i].arg = "heartbeat"})

\* the part of a trace from the call of _connectMQTT on
JoinPart(tr) ==
  IF JoinAttempted(tr)
  THEN LET i == CHOOSE k \in 1..Len(tr) :
                  tr[k].call = "connectMQTT" /\ \A j \in 1..(k - 1) : tr[j].call # "connectMQTT"
       IN  SubSeq(tr, i, Len(tr))
  ELSE <<>>

Has(tr, e) == \E i \in 1..Len(tr) : tr[i] = e

StartsWith(tr, p) == Len(p) <= Len(tr) /\ \A i \in 1..Len(p) : tr[i] = p[i]

DisconnectNotifications(tr) == Count(tr, "disconnectHandler") + Count(tr, "autoDisconnectHandler")

ConnectNotifications(tr) == Count(tr, "connectHandler") + Count(tr, "autoConnectHandler")

IsConnectNotification(e) == e.call \in {"connectHandler", "autoConnectHandler"}

\* the handlers a connect notification calls: the explicit one first
ExpectedConnectNotifications ==
  (IF connectHandler THEN <<Ev("connectHandler", "")>> ELSE <<>>)
    \o (IF autoConnectHandler THEN <<Ev("autoConnectHandler", "")>> ELSE <<>>)

\* the handlers a disconnect notification calls: the explicit one first
ExpectedDisconnectNotifications ==
  (IF disconnectHandler THEN <<Ev("disconnectHandler", "")>> ELSE <<>>)
    \o (IF autoDisconnectHandler THEN <<Ev("autoDisconnectHandler", "")>> ELSE <<>>)

(***************************************************************************)
(* C1: connected() returns TRUE iff _state is CONNECTED and the transport  *)
(* reports itself connected: FALSE when the state is not CONNECTED though  *)
(* the transport is connected, and FALSE when the transport is not         *)
(* connected though the state is still CONNECTED.                          *)
(***************************************************************************)
C1_ConnectedIffStateAndTransport ==
  op = "connected" =>
    /\ ret = (state = "CONNECTED" /\ mqttConnected)
    /\ (state # "CONNECTED" /\ mqttConnected => ret = FALSE)
    /\ (state = "CONNECTED" /\ ~mqttConnected => ret = FALSE)

C1_Witness ==
  op = "connected" /\ state # "CONNECTED" /\ mqttConnected /\ ret = FALSE

(***************************************************************************)
(* C2: a poll of a session that is Connected (state CONNECTED, transport   *)
(* connected and still so after the receive pump) publishes no heartbeat   *)
(* and leaves _lastHeartbeat alone while now - _lastHeartbeat is below the *)
(* heartbeat interval; at or after the interval it publishes exactly one   *)
(* heartbeat and sets _lastHeartbeat to the clock, so that the next poll   *)
(* at the same clock value publishes none.                                 *)
(***************************************************************************)
C2_HeartbeatTiming ==
  \A accept \in BOOLEAN :
    (state = "CONNECTED" /\ mqttConnected) =>
      LET r == run(Cur, FALSE, accept)
      IN  IF Elapsed(clock, lastHeartbeat) < heartbeatInterval
          THEN Heartbeats(r.trace) = 0 /\ r.lastHeartbeat = lastHeartbeat
          ELSE /\ Heartbeats(r.trace) = 1
               /\ r.lastHeartbeat = clock
               /\ Heartbeats(run(Settled(r), FALSE, accept).trace) = 0

C2_Witness ==
  /\ op = "run"
  /\ Heartbeats(trace) = 1
  /\ lastHeartbeat = clock
  /\ clock >= heartbeatInterval
  /\ state = "CONNECTED" /\ mqttConnected

(***************************************************************************)
(* C3: a poll that finds the transport not connected, the network joined   *)
(* and auto-reconnect enabled calls _connectMQTT exactly once if           *)
(* now - _lastReconnectAttempt >= reconnectInterval, and then sets         *)
(* _lastReconnectAttempt to now; otherwise it calls it not at all and      *)
(* leaves the timestamp.  A further poll at the same clock value, the      *)
(* transport still not connected, starts no attempt.                       *)
(***************************************************************************)
C3_OneAttemptPerInterval ==
  \A dropped \in BOOLEAN, accept \in BOOLEAN :
    (~mqttConnected /\ wifiConnected /\ autoReconnect) =>
      LET r == run(Cur, dropped, accept)
          due == Elapsed(clock, lastReconnectAttempt) >= reconnectInterval
      IN  /\ Count(r.trace, "connectMQTT") = IF due THEN 1 ELSE 0
          /\ r.lastReconnectAttempt = IF due THEN clock ELSE lastReconnectAttempt
          /\ (due /\ ~r.mqtt /\ r.wifi =>
                \A a2 \in BOOLEAN : ~JoinAttempted(run(Settled(r), dropped, a2).trace))

C3_Witness ==
  /\ op = "run"
  /\ JoinAttempted(trace)
  /\ lastReconnectAttempt = clock
  /\ clock >= 2 * reconnectInterval
  /\ ~mqttConnected /\ wifiConnected /\ autoReconnect

(***************************************************************************)
(* C4, with the attempts the interval is measured from left open: when an  *)
(* operation among the given results has called _connectMQTT, whether the  *)
(* attempt failed or succeeded, a poll made less than one reconnect        *)
(* interval later starts no attempt, whatever has become of the transport  *)
(* and of the network in between.                                          *)
(***************************************************************************)
LaterPoll(x, e, lost, wifi, accept) ==
  run([Settled(x) EXCEPT !.now = x.now + e, !.mqtt = x.mqtt /\ ~lost, !.wifi = wifi],
      FALSE, accept)

C4_Statement(results) ==
  \A x \in results :
    JoinAttempted(x.trace) =>
      \A e \in 0..(reconnectInterval - 1), lost \in BOOLEAN, wifi \in BOOLEAN,
         accept \in BOOLEAN :
        ~JoinAttempted(LaterPoll(x, e, lost, wifi, accept).trace)

\* C4 as claimed: measured from the last attempt, made by the scheduler or by
\* connect()/begin()
C4_IntervalFromAnyAttempt == C4_Statement(RunResults \cup BeginResults)

\* C4 as amended: measured from the last attempt the scheduler made; begin
\* (either form) leaves _lastReconnectAttempt as it is, so an attempt made by
\* begin does not postpone the scheduler's next one
C4_IntervalFromLastSchedulerAttempt ==
  /\ C4_Statement(RunResults)
  /\ \A r \in BeginResults : r.lastReconnectAttempt = lastReconnectAttempt

C4_Witness ==
  /\ op = "run"
  /\ Has(trace, Ev("connectMQTT.return", "false"))
  /\ lastReconnectAttempt = clock
  /\ clock >= 2 * reconnectInterval

(***************************************************************************)
(* C5: a poll that finds the transport not connected while _state is       *)
(* CONNECTED sets _state to DISCONNECTED and then calls the disconnect     *)
(* handlers once each, the explicit one first and then the declarative     *)
(* one, whether the network is joined or not; _state is DISCONNECTED when  *)
(* the poll ends unless the poll went on to a join attempt.  A poll that   *)
(* finds _state other than CONNECTED calls no disconnect handler, and      *)
(* _state becomes CONNECTED again only by a _connectMQTT that returns      *)
(* true.                                                                   *)
(***************************************************************************)
C5_DisconnectNotifiedOnce ==
  /\ \A r \in RunResults :
       /\ (state = "CONNECTED" /\ ~mqttConnected) =>
            /\ StartsWith(r.trace, <<Ev("yield", ""), Ev("state", "DISCONNECTED")>>
                                      \o ExpectedDisconnectNotifications)
            /\ DisconnectNotifications(r.trace) = Len(ExpectedDisconnectNotifications)
            /\ (~JoinAttempted(r.trace) => r.state = "DISCONNECTED")
            /\ (r.state # "CONNECTED" =>
                  \A d2 \in BOOLEAN, a2 \in BOOLEAN :
                    DisconnectNotifications(run(Settled(r), d2, a2).trace) = 0)
       /\ (state # "CONNECTED" => DisconnectNotifications(r.trace) = 0)
  /\ \A r \in RunResults \cup BeginResults \cup {disconnect(Cur)} :
       (state # "CONNECTED" /\ r.state = "CONNECTED") =>
          Has(r.trace, Ev("connectMQTT.return", "true"))

C5_Witness ==
  /\ op = "run"
  /\ state = "DISCONNECTED"
  /\ ~wifiConnected
  /\ trace = <<Ev("yield", ""), Ev("state", "DISCONNECTED"),
               Ev("disconnectHandler", ""), Ev("autoDisconnectHandler", "")>>

(***************************************************************************)
(* C6, with the retain flag of the offline status message left open:       *)
(* disconnect() on a live session publishes "offline" on the status topic  *)
(* with that flag, closes the transport, sets _state to DISCONNECTED and   *)
(* calls no disconnect handler; nor does any poll that finds _state        *)
(* DISCONNECTED.                                                           *)
(***************************************************************************)
C6_Statement(retained) ==
  /\ mqttConnected =>
       LET r == disconnect(Cur)
       IN  /\ r.trace = <<Pub("status", "offline", retained),
                          Ev("mqtt.disconnect", ""),
                          Ev("state", "DISCONNECTED")>>
           /\ r.state = "DISCONNECTED"
           /\ ~r.mqtt
           /\ \A d \in BOOLEAN, a \in BOOLEAN :
                DisconnectNotifications(run(Settled(r), d, a).trace) = 0
  /\ state = "DISCONNECTED" =>
       \A r \in RunResults : DisconnectNotifications(r.trace) = 0

\* C6 as claimed: the offline status message is published NON-retained
C6_OfflineNotRetained == C6_Statement(FALSE)

\* C6 as amended: the offline status message is published retained, like the
\* online status message and the last will
C6_OfflineRetained == C6_Statement(TRUE)

C6_Witness ==
  /\ op = "disconnect"
  /\ Has(trace, Pub("status", "offline", TRUE))
  /\ Has(trace, Ev("mqtt.disconnect", ""))
  /\ state = "DISCONNECTED"
  /\ ~mqttConnected

\* the steps of a join the claims speak of: the part of the trace from the
\* call of _connectMQTT on, without the entry and return marks and without
\* the assignment of CONNECTING_MQTT
IsJoinStep(e) ==
  /\ e.call \notin {"connectMQTT", "connectMQTT.return"}
  /\ e # Ev("state", "CONNECTING_MQTT")

JoinSteps(tr) == SelectSeq(JoinPart(tr), IsJoinStep)

(***************************************************************************)
(* C7, with the order of the steps left open: every _connectMQTT that      *)
(* returns true (called by begin, either form, or by a poll) makes exactly *)
(* the given steps in the given order and then calls the connect handlers  *)
(* once each, the explicit one first and then the declarative one; _state  *)
(* is CONNECTED and the transport connected when it returns.               *)
(***************************************************************************)
C7_Statement(steps) ==
  \A r \in RunResults \cup BeginResults :
    Has(r.trace, Ev("connectMQTT.return", "true")) =>
      /\ JoinSteps(r.trace) = steps \o ExpectedConnectNotifications
      /\ Count(r.trace, "connectMQTT") = 1
      /\ r.state = "CONNECTED"
      /\ r.mqtt

\* C7 as claimed: transport connect with the last will (offline, retained),
\* retained online status, subscribe, start time, _state set to CONNECTED,
\* then the connect notification
C7_StateSetAfterStartTime ==
  C7_Statement(<<Will("status", "offline", TRUE), Pub("status", "online", TRUE),
                 Ev("subscribe", "cmd/#"), Ev("startTime", ""),
                 Ev("state", "CONNECTED")>>)

\* C7 as amended: _state is set to CONNECTED as soon as the transport has
\* connected, before the online status is published; the other steps are in
\* the order claimed, and _state is CONNECTED when the handlers run
C7_StateSetAfterTransportConnect ==
  C7_Statement(<<Will("status", "offline", TRUE), Ev("state", "CONNECTED"),
                 Pub("status", "online", TRUE), Ev("subscribe", "cmd/#"),
                 Ev("startTime", "")>>)

C7_Witness ==
  /\ op = "run"
  /\ state = "CONNECTED"
  /\ JoinSteps(trace) =
       <<Will("status", "offline", TRUE), Ev("state", "CONNECTED"),
         Pub("status", "online", TRUE), Ev("subscribe", "cmd/#"),
         Ev("startTime", ""), Ev("connectHandler", ""),
         Ev("autoConnectHandler", "")>>

\* what a refused broker join leaves behind
JoinRefused(r) ==
  /\ Has(r.trace, Ev("connectMQTT.return", "false"))
  /\ r.state = "ERROR"
  /\ r.lastError = "MQTT_FAILED"
  /\ ~r.mqtt
  /\ JoinSteps(r.trace) = <<Will("status", "offline", TRUE), Ev("state", "ERROR")>>

(***************************************************************************)
(* C8: when the transport refuses a broker join (a token is set, the       *)
(* transport is not connected and does not accept), _connectMQTT returns   *)
(* false, _state is ERROR, Last Error is MQTT_FAILED, and from the call of *)
(* _connectMQTT on nothing is published or subscribed and no connect or    *)
(* disconnect handler is called; begin returns false.                      *)
(***************************************************************************)
C8_RefusedJoin ==
  (authToken # <<>> /\ ~mqttConnected) =>
    /\ \A dropped \in BOOLEAN :
         LET r == run(Cur, dropped, FALSE)
         IN  JoinAttempted(r.trace) => JoinRefused(r)
    /\ LET r == begin(Cur, FALSE)
       IN  JoinAttempted(r.trace) => JoinRefused(r) /\ r.ret = FALSE
    /\ \A joined \in BOOLEAN, d \in 0..(wifiTimeout - 1) :
         LET r == beginWiFi(Cur, joined, d, FALSE)
         IN  JoinAttempted(r.trace) => JoinRefused(r) /\ r.ret = FALSE

C8_Witness ==
  /\ op = "run"
  /\ state = "ERROR"
  /\ lastError = "MQTT_FAILED"
  /\ Has(trace, Will("status", "offline", TRUE))
  /\ Has(trace, Ev("connectMQTT.return", "false"))
  /\ ConnectNotifications(trace) = 0

(***************************************************************************)
(* C9: with an empty token every _connectMQTT, called by begin (either     *)
(* form) or by a poll, returns false at once with Last Error NO_TOKEN: it  *)
(* makes no call on the transport (no connect, publish or subscribe), the  *)
(* transport is as before, and begin returns false.                        *)
(***************************************************************************)
C9_NoTokenNoTransport ==
  authToken = <<>> =>
    /\ \A r \in RunResults \cup BeginResults :
         JoinAttempted(r.trace) =>
           /\ JoinPart(r.trace) = <<Ev("connectMQTT", ""), Ev("connectMQTT.return", "false")>>
           /\ r.lastError = "NO_TOKEN"
           /\ r.mqtt = mqttConnected
           /\ Count(r.trace, "mqtt.connect") = 0
           /\ Count(r.trace, "subscribe") = 0
    /\ \A r \in BeginResults : JoinAttempted(r.trace) => r.ret = FALSE

C9_Witness ==
  /\ op = "run"
  /\ authToken = <<>>
  /\ trace = <<Ev("yield", ""), Ev("connectMQTT", ""), Ev("connectMQTT.return", "false")>>
  /\ lastError = "NO_TOKEN"

(***************************************************************************)
(* C10: every begin (either form) that returns false has set Last Error    *)
(* and leaves _state equal to ERROR, and has made at most one network join *)
(* and at most one broker-join attempt.                                    *)
(***************************************************************************)
C10_FailedConnectLeavesError ==
  \A r \in BeginResults :
    /\ Count(r.trace, "WiFi.begin") <= 1
    /\ Count(r.trace, "connectMQTT") <= 1
    /\ ~r.ret =>
         /\ r.lastError \in {"WIFI_FAILED", "NO_TOKEN", "MQTT_FAILED"}
         /\ r.state = "ERROR"

(***************************************************************************)
(* C11: begin() called while the network is not joined returns false at    *)
(* once with Last Error WIFI_FAILED: it starts no network join, neither    *)
(* configures nor calls the transport, attempts no broker join (it makes   *)
(* no call at all), and leaves the network, the transport and the clock as *)
(* they were.                                                              *)
(***************************************************************************)
C11_BeginWithoutNetwork ==
  ~wifiConnected =>
    \A accept \in BOOLEAN :
      LET r == begin(Cur, accept)
      IN  /\ r.ret = FALSE
          /\ r.lastError = "WIFI_FAILED"
          /\ r.trace = <<>>
          /\ Count(r.trace, "WiFi.begin") = 0
          /\ Count(r.trace, "setupClient") = 0
          /\ ~JoinAttempted(r.trace)
          /\ r.wifi = wifiConnected
          /\ r.mqtt = mqttConnected
          /\ r.now = clock

C11_Witness ==
  /\ op = "begin"
  /\ ~wifiConnected
  /\ ret = FALSE
  /\ lastError = "WIFI_FAILED"
  /\ trace = <<>>

\* the calls of channel handlers in a trace
IsChannelCall(e) == e.call \in {"pinHandlers", "autoWriteHandlers"}

ChannelCalls(tr) == SelectSeq(tr, IsChannelCall)

\* the entries registered for channel c, by position
ExplicitFor(c) ==
  {i \in 1..Len(pinHandlers) : pinHandlers[i].active /\ pinHandlers[i].pin = c}

DeclarativeFor(c) == {i \in 1..Len(autoWriteHandlers) : autoWriteHandlers[i].pin = c}

Earliest(S) == CHOOSE i \in S : \A j \in S : i <= j

\* the call of callback h of the given table with the payload of a message
CallOf(table, h, payload) ==
  IF h = NULL THEN <<>> ELSE <<Rx(table, h, <<>>, payloadStr(payload))>>

ObserverCall(topic, payload) ==
  Rx("messageHandler", "messageHandler", topic, payloadStr(payload))

(***************************************************************************)
(* C12: for every channel c that has both an explicit and a declarative    *)
(* registration, an inbound command on c (with any channel prefix, with an *)
(* empty payload or a long one) calls the callback of the explicit         *)
(* registration and never a callback of the declarative table, whichever   *)
(* registration was made first.                                            *)
(***************************************************************************)
C12_ExplicitWins ==
  \A c \in Pins, l \in ChannelPrefixes, p \in EdgePayloads :
    (ExplicitFor(c) # {} /\ DeclarativeFor(c) # {}) =>
      LET r == handleMessage(RCur, CmdTopic(l, Decimal(c)), p)
          e == pinHandlers[Earliest(ExplicitFor(c))]
      IN  /\ Count(r.trace, "autoWriteHandlers") = 0
          /\ ChannelCalls(r.trace) = CallOf("pinHandlers", e.handler, p)

C12_Witness ==
  /\ op = "handleMessage"
  /\ ExplicitFor(7) # {} /\ DeclarativeFor(7) # {}
  /\ autoWriteHandlers[1].pin = 7
  /\ trace = <<ObserverCall(CmdTopic(<<"V">>, Decimal(7)), Payload(2)),
               Rx("pinHandlers", "f", <<>>, Payload(2))>>

(***************************************************************************)
(* C13: an inbound command on a channel c calls at most one channel        *)
(* handler, once: the callback of the earliest active explicit entry for c *)
(* if there is one, otherwise that of the earliest declarative entry for   *)
(* c; later entries for c of the same table are not called; with no entry  *)
(* for c in either table nothing is called and no error is recorded.       *)
(***************************************************************************)
C13_EarliestEntryOnce ==
  \A c \in Pins, l \in ChannelPrefixes, p \in EdgePayloads :
    LET r == handleMessage(RCur, CmdTopic(l, Decimal(c)), p)
    IN  /\ Len(ChannelCalls(r.trace)) <= 1
        /\ ChannelCalls(r.trace) =
             IF ExplicitFor(c) # {}
             THEN CallOf("pinHandlers", pinHandlers[Earliest(ExplicitFor(c))].handler, p)
             ELSE IF DeclarativeFor(c) # {}
             THEN CallOf("autoWriteHandlers",
                         autoWriteHandlers[Earliest(DeclarativeFor(c))].handler, p)
             ELSE <<>>
        /\ r.lastError = lastError

C13_Witness ==
  /\ op = "handleMessage"
  /\ ExplicitFor(7) = {}
  /\ autoWriteHandlers = <<[pin |-> 7, handler |-> "a"], [pin |-> 7, handler |-> "b"]>>
  /\ trace = <<ObserverCall(CmdTopic(<<"V">>, Decimal(7)), Payload(2)),
               Rx("autoWriteHandlers", "a", <<>>, Payload(2))>>

(***************************************************************************)
(* C14: onVirtualWrite called when the explicit table holds                *)
(* VWIRE_MAX_HANDLERS entries sets Last Error to HANDLER_FULL and leaves   *)
(* the count and every entry of the table as they were; called below       *)
(* capacity it appends one active entry at the end, the count growing by   *)
(* one and the earlier entries staying.                                    *)
(***************************************************************************)
C14_RegistryFull ==
  \A in \in RegistryExplicit :
    LET r == onVirtualWrite(RCur, in[1], in[2])
    IN  IF Len(pinHandlers) >= VWIRE_MAX_HANDLERS
        THEN /\ r.lastError = "HANDLER_FULL"
             /\ r.pinHandlers = pinHandlers
        ELSE /\ Len(r.pinHandlers) = Len(pinHandlers) + 1
             /\ SubSeq(r.pinHandlers, 1, Len(pinHandlers)) = pinHandlers
             /\ r.pinHandlers[Len(r.pinHandlers)] =
                  [pin |-> in[1], handler |-> in[2], active |-> TRUE]

C14_Witness ==
  /\ op = "onVirtualWrite"
  /\ lastError = "HANDLER_FULL"
  /\ Len(pinHandlers) = VWIRE_MAX_HANDLERS

(***************************************************************************)
(* C15: an inbound command whose channel number parses to a value outside  *)
(* 0 .. VWIRE_MAX_VIRTUAL_PINS-1 (V128, V999, -1) calls no channel         *)
(* handler, leaves Last Error and _state as they were, and the             *)
(* raw-message observer, if one is set, is still called.                   *)
(***************************************************************************)
C15_OutOfRangeChannel ==
  \A t \in OutOfRangeTopics, p \in Payloads :
    LET r == handleMessage(RCur, t, p)
    IN  /\ ChannelCalls(r.trace) = <<>>
        /\ r.lastError = lastError
        /\ r.state = state
        /\ r.trace = IF messageHandler THEN <<ObserverCall(t, p)>> ELSE <<>>

C15_Witness ==
  /\ op = "handleMessage"
  /\ ExplicitFor(VWIRE_MAX_VIRTUAL_PINS) # {}
  /\ trace = <<ObserverCall(CmdTopic(<<"V">>, Decimal(VWIRE_MAX_VIRTUAL_PINS)), Payload(1))>>

(***************************************************************************)
(* C16: for every inbound message the raw-message observer, if one is set, *)
(* is called exactly once, with the whole topic and the (truncated)        *)
(* payload string, before any channel handler and whether the topic is a   *)
(* command or not; with no observer set none is called; a topic without    *)
(* the marker "/cmd/" calls no channel handler.                            *)
(***************************************************************************)
C16_ObserverFirst ==
  \A t \in Topics, p \in Payloads :
    LET r == handleMessage(RCur, t, p)
    IN  /\ Count(r.trace, "messageHandler") = IF messageHandler THEN 1 ELSE 0
        /\ messageHandler => r.trace[1] = ObserverCall(t, p)
        /\ t = StatusTopic => ChannelCalls(r.trace) = <<>>

C16_Witness ==
  /\ op = "handleMessage"
  /\ DeclarativeFor(0) # {}
  /\ trace = <<ObserverCall(StatusTopic, Payload(MaxPayloadLen))>>

(***************************************************************************)
(* C17: an inbound topic that contains the marker and whose channel        *)
(* suffix, after the optional prefix V or v, has no decimal digit          *)
(* ("/cmd/V", "/cmd/Vx", "/cmd/x") calls no channel handler and leaves     *)
(* Last Error as it was.                                                   *)
(***************************************************************************)
C17_NoDigitsNoHandler ==
  \A t \in NoDigitTopics, p \in Payloads :
    LET r == handleMessage(RCur, t, p)
    IN  /\ ChannelCalls(r.trace) = <<>>
        /\ r.lastError = lastError

(***************************************************************************)
(* C18: a poll that finds the transport not connected and the network not  *)
(* joined never calls _connectMQTT and leaves _lastReconnectAttempt as it  *)
(* is, however long ago the last attempt was made and with auto-reconnect  *)
(* enabled or not.                                                         *)
(***************************************************************************)
C18_NoReconnectWithoutNetwork ==
  (~mqttConnected /\ ~wifiConnected) =>
    \A r \in RunResults :
      /\ ~JoinAttempted(r.trace)
      /\ Count(r.trace, "mqtt.connect") = 0
      /\ r.lastReconnectAttempt = lastReconnectAttempt

C18_Witness ==
  /\ op = "run"
  /\ ~mqttConnected /\ ~wifiConnected
  /\ autoReconnect
  /\ authToken # <<>>
  /\ Elapsed(clock, lastReconnectAttempt) >= reconnectInterval
  /\ trace = <<Ev("yield", "")>>

(***************************************************************************)
(* C19: within one poll a heartbeat publish and a broker-join attempt      *)
(* never both occur: a poll that pumps the receive path (and tests the     *)
(* heartbeat) never calls _connectMQTT, and a poll that calls _connectMQTT *)
(* neither pumps the receive path nor publishes a heartbeat, even when the *)
(* join succeeds in that poll and a heartbeat is due.                      *)
(***************************************************************************)
C19_HeartbeatOrReconnect ==
  \A r \in RunResults :
    /\ ~(Heartbeats(r.trace) > 0 /\ JoinAttempted(r.trace))
    /\ Count(r.trace, "loop") > 0 => ~JoinAttempted(r.trace)
    /\ JoinAttempted(r.trace) =>
         /\ Count(r.trace, "loop") = 0
         /\ Heartbeats(r.trace) = 0
         /\ r.lastHeartbeat = lastHeartbeat

C19_Witness ==
  /\ op = "run"
  /\ Has(trace, Ev("connectMQTT.return", "true"))
  /\ state = "CONNECTED" /\ mqttConnected
  /\ Elapsed(clock, lastHeartbeat) >= heartbeatInterval
  /\ Heartbeats(trace) = 0

(***************************************************************************)
(* C20: with auto-reconnect disabled no poll calls _connectMQTT, whatever  *)
(* the clock; a poll that detects the disconnect leaves _state             *)
(* DISCONNECTED, and every poll that finds _state DISCONNECTED leaves it   *)
(* DISCONNECTED, as do the passing of time and the changes of the network  *)
(* and of the transport: the state leaves DISCONNECTED only when the host  *)
(* calls begin (or enables auto-reconnect).                                *)
(***************************************************************************)
C20_DisabledStaysDisconnected ==
  ~autoReconnect =>
    \A r \in RunResults :
      /\ ~JoinAttempted(r.trace)
      /\ (state = "CONNECTED" /\ ~mqttConnected) => r.state = "DISCONNECTED"
      /\ state = "DISCONNECTED" =>
           /\ r.state = "DISCONNECTED"
           /\ \A e \in 0..(MaxClock - clock), wifi \in BOOLEAN, accept \in BOOLEAN :
                LET r2 == LaterPoll(r, e, TRUE, wifi, accept)
                IN  ~JoinAttempted(r2.trace) /\ r2.state = "DISCONNECTED"

C20_Witness ==
  /\ op = "run"
  /\ ~autoReconnect
  /\ state = "DISCONNECTED"
  /\ ~mqttConnected /\ wifiConnected
  /\ authToken # <<>>
  /\ Elapsed(clock, lastReconnectAttempt) >= reconnectInterval
  /\ trace = <<Ev("yield", "")>>

\* a failed broker join or network join is in the trace, or begin() returned
\* false
Failed(r) ==
  \/ ~r.ret
  \/ Has(r.trace, Ev("connectMQTT.return", "false"))

(***************************************************************************)
(* C22: Last Error is changed only by a failure.  A begin or a poll that   *)
(* changes it has failed (a join refused, no token, no network), and the   *)
(* new value is that failure's classification; a successful begin, a poll  *)
(* that rejoins, a poll on the connected fast path, the dispatch of an     *)
(* inbound message and disconnect() leave it as it was; so do config and   *)
(* the other settings.                                                     *)
(***************************************************************************)
C22_LastErrorOnlyByFailure ==
  /\ \A r \in RunResults \cup BeginResults :
       /\ r.lastError # lastError => Failed(r)
       /\ Failed(r) => r.lastError \in {"WIFI_FAILED", "NO_TOKEN", "MQTT_FAILED"}
       /\ Has(r.trace, Ev("connectMQTT.return", "true")) => r.lastError = lastError
       /\ Count(r.trace, "loop") > 0 => r.lastError = lastError
  /\ disconnect(Cur).lastError = lastError
  /\ \A t \in Topics : handleMessage(RCur, t, Payload(MaxPayloadLen)).lastError = lastError
  /\ \A t \in ConfigTokens, p \in Ports :
       config(CfgCur, t, p).lastError = lastError
  /\ \A st \in SettingsInputs : configSettings(CfgCur, st).lastError = lastError

C22_Witness ==
  /\ op = "run"
  /\ Has(trace, Ev("connectMQTT.return", "true"))
  /\ state = "CONNECTED"
  /\ lastError = "MQTT_FAILED"

(***************************************************************************)
(* C26: a poll that finds the transport connected takes the fast path      *)
(* only: it pumps the receive path once (first), tests the heartbeat, and  *)
(* returns without assigning _state, calling a disconnect handler or       *)
(* calling _connectMQTT, also when the pump itself lost the session; a     *)
(* session lost in the pump is found lost by the next poll, which then     *)
(* sets DISCONNECTED.                                                      *)
(***************************************************************************)
C26_FastPathOnly ==
  mqttConnected =>
    \A dropped \in BOOLEAN, accept \in BOOLEAN :
      LET r == run(Cur, dropped, accept)
      IN  /\ Count(r.trace, "loop") = 1
          /\ r.trace[1] = Ev("loop", "")
          /\ Count(r.trace, "state") = 0
          /\ r.state = state
          /\ DisconnectNotifications(r.trace) = 0
          /\ ~JoinAttempted(r.trace)
          /\ Count(r.trace, "yield") = 0
          /\ (dropped /\ state = "CONNECTED") =>
               \A d2 \in BOOLEAN, a2 \in BOOLEAN :
                 Has(run(Settled(r), d2, a2).trace, Ev("state", "DISCONNECTED"))

C26_Witness ==
  /\ op = "run"
  /\ trace = <<Ev("loop", "")>>
  /\ state = "CONNECTED"
  /\ ~mqttConnected

(***************************************************************************)
(* C29: a requested disconnect is not sticky.  After disconnect() has set  *)
(* _state to DISCONNECTED, with auto-reconnect enabled, the network joined *)
(* and a token set, a poll made while less than one reconnect interval has *)
(* elapsed since _lastReconnectAttempt starts no attempt, and the first    *)
(* poll at or after the interval calls _connectMQTT; when the transport    *)
(* accepts, _state is CONNECTED again and the connect handlers are called. *)
(***************************************************************************)
C29_DisconnectNotSticky ==
  (autoReconnect /\ authToken # <<>>) =>
    LET d == disconnect(Cur)
    IN  /\ d.state = "DISCONNECTED"
        /\ ~d.mqtt
        /\ d.lastReconnectAttempt = lastReconnectAttempt
        /\ \A e \in 0..(MaxClock - clock), accept \in BOOLEAN :
             LET r == LaterPoll(d, e, FALSE, TRUE, accept)
                 due == Elapsed(clock + e, lastReconnectAttempt) >= reconnectInterval
             IN  /\ JoinAttempted(r.trace) = due
                 /\ (due /\ accept) =>
                      /\ r.state = "CONNECTED"
                      /\ r.mqtt
                      /\ SelectSeq(r.trace, IsConnectNotification) = ExpectedConnectNotifications

C29_Witness ==
  /\ op = "disconnect"
  /\ state = "DISCONNECTED"
  /\ Has(trace, Ev("mqtt.disconnect", ""))
  /\ autoReconnect /\ wifiConnected /\ authToken # <<>>
  /\ connectHandler
  /\ Elapsed(clock, lastReconnectAttempt) >= reconnectInterval

(***************************************************************************)
(* C30: with a host that never calls begin while a session is live (and a  *)
(* transport that connects only in _connectMQTT), in every state between   *)
(* two host calls: if the transport reports connected then _state is       *)
(* CONNECTED.                                                              *)
(***************************************************************************)
C30_TransportConnectedImpliesState == mqttConnected => state = "CONNECTED"

C30_Witness ==
  /\ op = "run"
  /\ Has(trace, Ev("connectMQTT.return", "true"))
  /\ mqttConnected
  /\ state = "CONNECTED"
  /\ lastError = "MQTT_FAILED"

(***************************************************************************)
(* C21: automatic recovery.  With auto-reconnect enabled and a token set,  *)
(* the host polling as the clock advances, the network joined and the      *)
(* transport accepting joins, a session that is DISCONNECTED or in ERROR   *)
(* (after a failed join or a detected disconnect) eventually is CONNECTED  *)
(* by a poll whose join succeeded and that called the connect handlers.    *)
(***************************************************************************)
C21_EventuallyConnected ==
  (state \in {"DISCONNECTED", "ERROR"} /\ ~mqttConnected)
    ~> (/\ op = "run"
        /\ state = "CONNECTED"
        /\ mqttConnected
        /\ Has(trace, Ev("connectMQTT.return", "true"))
        /\ SelectSeq(trace, IsConnectNotification) = ExpectedConnectNotifications)

C21_Witness ==
  /\ op = "run"
  /\ state = "CONNECTED"
  /\ mqttConnected
  /\ lastError = "MQTT_FAILED"
  /\ Has(trace, Ev("connectMQTT.return", "true"))
  /\ trace[Len(trace) - 1] = Ev("autoConnectHandler", "")
  /\ clock < lastHeartbeat

\* the first min(L, VWIRE_MAX_PAYLOAD_LENGTH - 1) characters of a payload
Truncated(p) == [i \in 1..Min(Len(p), VWIRE_MAX_PAYLOAD_LENGTH - 1) |-> p[i]]

(***************************************************************************)
(* C27: of an inbound payload of length L the first                        *)
(* min(L, VWIRE_MAX_PAYLOAD_LENGTH - 1) characters are copied and the      *)
(* terminator is written at that index, which stays below                  *)
(* VWIRE_MAX_PAYLOAD_LENGTH; a longer payload is cut to that length        *)
(* without a change of Last Error, and the cut string is what the          *)
(* raw-message observer and the channel handler are given.                 *)
(***************************************************************************)
C27_PayloadTruncated ==
  \A p \in Payloads :
    /\ Len(payloadStr(p)) = Min(Len(p), VWIRE_MAX_PAYLOAD_LENGTH - 1)
    /\ Len(payloadStr(p)) < VWIRE_MAX_PAYLOAD_LENGTH
    /\ payloadStr(p) = Truncated(p)
    /\ LET t == CmdTopic(<<"V">>, Decimal(7))
           r == handleMessage(RCur, t, p)
       IN  /\ r.lastError = lastError
           /\ \A k \in 1..Len(r.trace) : r.trace[k].payload = Truncated(p)
           /\ messageHandler => Has(r.trace, Rx("messageHandler", "messageHandler", t, Truncated(p)))
           /\ ExplicitFor(7) # {} =>
                ChannelCalls(r.trace) = <<Rx("pinHandlers", "f", <<>>, Truncated(p))>>

C27_Witness ==
  /\ op = "handleMessage"
  /\ MaxPayloadLen >= VWIRE_MAX_PAYLOAD_LENGTH
  /\ LET cut == SubSeq(Payload(MaxPayloadLen), 1, VWIRE_MAX_PAYLOAD_LENGTH - 1)
     IN  trace = <<Rx("messageHandler", "messageHandler", CmdTopic(<<"V">>, Decimal(7)), cut),
                   Rx("pinHandlers", "f", <<>>, cut)>>

\* the callback registered for channel c: the earliest explicit entry,
\* otherwise the earliest declarative one
RegisteredFor(c) ==
  IF ExplicitFor(c) # {}
  THEN [table |-> "pinHandlers", handler |-> pinHandlers[Earliest(ExplicitFor(c))].handler]
  ELSE [table |-> "autoWriteHandlers",
        handler |-> autoWriteHandlers[Earliest(DeclarativeFor(c))].handler]

(***************************************************************************)
(* C28: a topic with the marker "/cmd/" followed by an optional prefix V   *)
(* or v and the decimal digits of n, 0 <= n <= 127, parses to channel n    *)
(* and is dispatched to the handler registered for n, which is given the   *)
(* (truncated) payload string: "/cmd/V7", "/cmd/v7" and "/cmd/7" with      *)
(* payload "42" call the channel-7 handler with a value whose asInt() is   *)
(* 42.                                                                     *)
(***************************************************************************)
C28_CommandDispatched ==
  /\ op = "init" =>
       \A n \in 0..(VWIRE_MAX_VIRTUAL_PINS - 1), l \in ChannelPrefixes :
         parsePin(l \o Decimal(n)) = n
  /\ \A c \in Pins, l \in ChannelPrefixes, p \in Payloads :
       (ExplicitFor(c) \cup DeclarativeFor(c) # {}) =>
         LET r == handleMessage(RCur, CmdTopic(l, Decimal(c)), p)
         IN  /\ ChannelCalls(r.trace) =
                  <<Rx(RegisteredFor(c).table, RegisteredFor(c).handler, <<>>, Truncated(p))>>
             /\ (p = FortyTwo /\ Len(Truncated(p)) = 2) =>
                  asInt(ChannelCalls(r.trace)[1].payload) = 42

C28_Witness ==
  /\ op = "handleMessage"
  /\ trace = <<Rx("messageHandler", "messageHandler", CmdTopic(<<"v">>, Decimal(7)), FortyTwo),
               Rx("pinHandlers", "f", <<>>, FortyTwo)>>
  /\ asInt(trace[2].payload) = 42
(***************************************************************************)
(* C23: reconfiguring, by any form of config, re-derives the device        *)
(* identity from the new token (cut to the buffer) and resets the          *)
(* connection state to IDLE.                                               *)
(***************************************************************************)
Reconfigured(c, token) ==
  /\ c.deviceId = strncpy(token, VWIRE_MAX_TOKEN_LENGTH - 1)
  /\ c.state = "IDLE"

C23_ReconfigureResetsState ==
  /\ \A t \in ConfigTokens : Reconfigured(configToken(CfgCur, t), t)
  /\ \A t \in ConfigTokens, p \in Ports : Reconfigured(config(CfgCur, t, p), t)
  /\ \A st \in SettingsInputs :
       Reconfigured(configSettings(CfgCur, st), st.authToken)

\* what the code does hold: the identity is the new token, cut to the
\* buffer, and _state and _lastError are left as they are
IdentityDerived(c, token) ==
  /\ c.deviceId = strncpy(token, VWIRE_MAX_TOKEN_LENGTH - 1)
  /\ c.deviceId = c.authToken
  /\ c.state = state
  /\ c.lastError = lastError

C23_IdentityDerivedStateLeft ==
  /\ \A t \in ConfigTokens : IdentityDerived(configToken(CfgCur, t), t)
  /\ \A t \in ConfigTokens, p \in Ports : IdentityDerived(config(CfgCur, t, p), t)
  /\ \A st \in SettingsInputs :
       IdentityDerived(configSettings(CfgCur, st), st.authToken)
  /\ \A t \in VwireTransport : setTransport(CfgCur, t).deviceId = deviceId
  /\ deviceId = authToken

C23_IdentityOnlyByConfig ==
  [][deviceId' # deviceId => op' \in {"configToken", "config", "configSettings"}]_vars

C23_ReconfiguredWhileConnected ==
  /\ op = "config"
  /\ state = "CONNECTED"
  /\ mqttConnected
  /\ deviceId = Token(VWIRE_MAX_TOKEN_LENGTH - 1)

(***************************************************************************)
(* C24: config(token, server, port) selects the encrypted transport when   *)
(* the port is 8883 or 443 and the plain one for every other port.         *)
(***************************************************************************)
C24_TransportByPort ==
  /\ \A t \in ConfigTokens, p \in Ports :
       LET c == config(CfgCur, t, p)
       IN  /\ c.port = p
           /\ c.transport = "TCP_SSL" <=> p \in {8883, 443}
           /\ c.transport = "TCP" <=> p \notin {8883, 443}
  /\ op = "config" => (transport = "TCP_SSL" <=> port \in {8883, 443})

C24_Witness ==
  /\ op = "config"
  /\ port = 443
  /\ transport = "TCP_SSL"
  /\ authToken = Token(VWIRE_MAX_TOKEN_LENGTH - 1)

(***************************************************************************)
(* C25: the handler tables are append-only.  Whatever operation is called  *)
(* (a registration, accepted or refused, config, begin, a poll, the        *)
(* dispatch of an inbound message, disconnect), every entry of the         *)
(* explicit and of the declarative table keeps its position, channel,      *)
(* callback and active flag, and neither count decreases.                  *)
(***************************************************************************)
IsPrefix(a, b) == Len(a) <= Len(b) /\ SubSeq(b, 1, Len(a)) = a

C25_TablesAppendOnly ==
  [][/\ IsPrefix(pinHandlers, pinHandlers')
     /\ IsPrefix(autoWriteHandlers, autoWriteHandlers')]_vars

C25_Witness ==
  /\ op = "handleMessage"
  /\ state = "CONNECTED"
  /\ lastError = "HANDLER_FULL"
  /\ Len(pinHandlers) = VWIRE_MAX_HANDLERS
  /\ Len(autoWriteHandlers) = VWIRE_MAX_AUTO_HANDLERS
  /\ pinHandlers[1] = [pin |-> 0, handler |-> NULL, active |-> TRUE]
  /\ autoWriteHandlers[1] = [pin |-> 7, handler |-> "a"]

(***************************************************************************)
(* C31: a broker join rejected for an empty token leaves _state as it was  *)
(* before the attempt.  begin(ssid, password) with an empty token and a    *)
(* successful network join returns false with Last Error NO_TOKEN and      *)
(* _state CONNECTING_WIFI; begin() and a poll that starts an attempt leave *)
(* IDLE, DISCONNECTED and ERROR as they are; the attempt itself assigns    *)
(* _state not at all.                                                      *)
(***************************************************************************)
IsStateAssignment(e) == e.call = "state"

C31_NoTokenLeavesState ==
  authToken = <<>> =>
    /\ \A d \in 0..(wifiTimeout - 1), accept \in BOOLEAN :
         LET r == beginWiFi(Cur, TRUE, d, accept)
         IN  /\ r.ret = FALSE
             /\ r.lastError = "NO_TOKEN"
             /\ r.state = "CONNECTING_WIFI"
    /\ \A r \in RunResults \cup {begin(Cur, accept) : accept \in BOOLEAN} :
         JoinAttempted(r.trace) =>
           /\ r.lastError = "NO_TOKEN"
           /\ state \in {"IDLE", "DISCONNECTED", "ERROR"} => r.state = state
    /\ \A r \in RunResults \cup BeginResults :
         SelectSeq(JoinPart(r.trace), IsStateAssignment) = <<>>

C31_Witness ==
  /\ op = "beginWiFi"
  /\ authToken = <<>>
  /\ ret = FALSE
  /\ lastError = "NO_TOKEN"
  /\ state = "CONNECTING_WIFI"
  /\ wifiConnected
  /\ Has(trace, Ev("connectMQTT.return", "false"))

(***************************************************************************)
(* C32: on the connected fast path, whenever the heartbeat interval has    *)
(* elapsed _lastHeartbeat is set to the clock, whether a heartbeat is      *)
(* published or not: when the pump has lost the transport, or _state is    *)
(* not CONNECTED, nothing is published and the timestamp is taken all the  *)
(* same, so that a poll of the session (restored, if it was lost) less     *)
(* than one interval later publishes no heartbeat.  While the interval has *)
(* not elapsed the timestamp is left alone.                                *)
(***************************************************************************)
Restored(r, e) ==
  [Settled(r) EXCEPT !.now = r.now + e, !.mqtt = TRUE, !.state = "CONNECTED"]

C32_TimestampWithoutHeartbeat ==
  mqttConnected =>
    \A dropped \in BOOLEAN, accept \in BOOLEAN :
      LET r == run(Cur, dropped, accept)
      IN  IF Elapsed(clock, lastHeartbeat) >= heartbeatInterval
          THEN /\ r.lastHeartbeat = clock
               /\ Heartbeats(r.trace) =
                    (IF state = "CONNECTED" /\ ~dropped THEN 1 ELSE 0)
               /\ \A e \in 0..(heartbeatInterval - 1) :
                    Heartbeats(run(Restored(r, e), FALSE, accept).trace) = 0
               /\ Heartbeats(run(Restored(r, heartbeatInterval), FALSE, accept).trace) = 1
          ELSE /\ r.lastHeartbeat = lastHeartbeat
               /\ Heartbeats(r.trace) = 0

C32_Witness ==
  /\ op = "run"
  /\ trace = <<Ev("loop", "")>>
  /\ ~mqttConnected
  /\ state = "CONNECTED"
  /\ lastHeartbeat = clock
  /\ clock >= heartbeatInterval

(***************************************************************************)
(* C33: the two due-tests subtract in unsigned arithmetic, so they stay    *)
(* right when the clock wraps.  Whatever the timestamp last is and         *)
(* whatever time d below the modulus has truly passed since, at the clock  *)
(* value (last + d) mod 2^w, which may be numerically below last, the test *)
(* holds iff d >= interval: a poll on the fast path publishes a heartbeat  *)
(* iff d >= heartbeatInterval, and a poll of a lost session starts a join  *)
(* iff d >= reconnectInterval.                                             *)
(***************************************************************************)
After(last, d) == (last + d) % ClockMod

C33_DueAcrossWrap ==
  \A d \in 0..(ClockMod - 1) :
    /\ HeartbeatDue([Cur EXCEPT !.now = After(lastHeartbeat, d)])
         <=> d >= heartbeatInterval
    /\ ReconnectDue([Cur EXCEPT !.now = After(lastReconnectAttempt, d)])
         <=> d >= reconnectInterval
    /\ connected(Cur) =>
         LET r == run([Cur EXCEPT !.now = After(lastHeartbeat, d)], FALSE, TRUE)
         IN  /\ Heartbeats(r.trace) = (IF d >= heartbeatInterval THEN 1 ELSE 0)
             /\ r.lastHeartbeat =
                  (IF d >= heartbeatInterval THEN After(lastHeartbeat, d)
                                             ELSE lastHeartbeat)
    /\ (~mqttConnected /\ wifiConnected /\ autoReconnect) =>
         LET r == run([Cur EXCEPT !.now = After(lastReconnectAttempt, d)], FALSE, TRUE)
         IN  JoinAttempted(r.trace) <=> d >= reconnectInterval

C33_Witness ==
  /\ op = "run"
  /\ Heartbeats(trace) = 1
  /\ lastHeartbeat = clock
  /\ clock < heartbeatInterval
  /\ lastReconnectAttempt > clock
  /\ state = "CONNECTED"

(***************************************************************************)
(* C34: a matching entry whose callback is null still ends the dispatch.   *)
(* When the earliest active explicit entry for channel c has a null        *)
(* callback, an inbound command on c calls no channel handler at all: not  *)
(* a later explicit entry for c and none of the declarative table.         *)
(***************************************************************************)
C34_NullCallbackEndsDispatch ==
  \A c \in Pins, l \in ChannelPrefixes, p \in EdgePayloads :
    (ExplicitFor(c) # {} /\ pinHandlers[Earliest(ExplicitFor(c))].handler = NULL) =>
      LET t == CmdTopic(l, Decimal(c))
          r == handleMessage(RCur, t, p)
      IN  /\ ChannelCalls(r.trace) = <<>>
          /\ r.trace = IF messageHandler THEN <<ObserverCall(t, p)>> ELSE <<>>
          /\ r.lastError = lastError

C34_Witness ==
  /\ op = "handleMessage"
  /\ pinHandlers = <<[pin |-> 7, handler |-> NULL, active |-> TRUE],
                     [pin |-> 7, handler |-> "f", active |-> TRUE]>>
  /\ DeclarativeFor(7) # {}
  /\ trace = <<ObserverCall(CmdTopic(<<"V">>, Decimal(7)), Payload(2))>>

(***************************************************************************)
(* C35: a declarative registration made when the declarative table holds   *)
(* VWIRE_MAX_AUTO_HANDLERS entries is dropped silently: the count and      *)
(* every entry stay, and no error is recorded (Last Error is as before).   *)
(* Below capacity the entry is appended, however many explicit entries     *)
(* there are, and the explicit table is never touched.                     *)
(***************************************************************************)
C35_DeclarativeFullDropped ==
  \A in \in RegistryAuto :
    LET r == vwireRegisterWriteHandler(RCur, in[1], in[2])
    IN  /\ r.lastError = lastError
        /\ r.pinHandlers = pinHandlers
        /\ r.state = state
        /\ IF Len(autoWriteHandlers) >= VWIRE_MAX_AUTO_HANDLERS
           THEN r.autoWriteHandlers = autoWriteHandlers
           ELSE r.autoWriteHandlers =
                  Append(autoWriteHandlers, [pin |-> in[1], handler |-> in[2]])

C35_Witness ==
  /\ op = "registerWriteHandler"
  /\ Len(autoWriteHandlers) = VWIRE_MAX_AUTO_HANDLERS
  /\ Len(pinHandlers) = VWIRE_MAX_HANDLERS
  /\ lastError = "NONE"

(***************************************************************************)
(* C36: disconnect notifications never outnumber connect notifications,    *)
(* and between two disconnect notifications there is a connect             *)
(* notification.  Stated on every step, for the explicit and for the       *)
(* declarative handler pair: a disconnect handler is called only right     *)
(* after a connect handler call of the same operation or, as the first     *)
(* notification of an operation, from _state CONNECTED; and an operation   *)
(* that ends in CONNECTED has called the connect handler last, or has      *)
(* called neither and started in CONNECTED.  So CONNECTED always means     *)
(* that the last notification was a connect one, the notifications         *)
(* alternate, and the first one is a connect notification.                 *)
(***************************************************************************)
IsExplicitNotification(e) == e.call \in {"connectHandler", "disconnectHandler"}

IsDeclarativeNotification(e) ==
  e.call \in {"autoConnectHandler", "autoDisconnectHandler"}

IsDisconnectCall(e) == e.call \in {"disconnectHandler", "autoDisconnectHandler"}

\* the notifications n of an operation started in state st and ended in st2
Alternating(n, st, st2) ==
  /\ \A i \in 1..Len(n) :
       IsDisconnectCall(n[i]) =>
         IF i = 1 THEN st = "CONNECTED" ELSE ~IsDisconnectCall(n[i - 1])
  /\ st2 = "CONNECTED" =>
       IF n = <<>> THEN st = "CONNECTED" ELSE ~IsDisconnectCall(n[Len(n)])

C36_NotificationsAlternate ==
  [][/\ connectHandler =>
          Alternating(SelectSeq(trace', IsExplicitNotification), state, state')
     /\ autoConnectHandler =>
          Alternating(SelectSeq(trace', IsDeclarativeNotification), state, state')
     /\ DisconnectNotifications(trace') <= ConnectNotifications(trace')
          + (IF state = "CONNECTED" THEN Len(ExpectedDisconnectNotifications) ELSE 0)]_vars

C36_Witness ==
  /\ op = "run"
  /\ state = "CONNECTED"
  /\ SelectSeq(trace, IsExplicitNotification) =
       <<Ev("disconnectHandler", ""), Ev("connectHandler", "")>>
  /\ SelectSeq(trace, IsDeclarativeNotification) =
       <<Ev("autoDisconnectHandler", ""), Ev("autoConnectHandler", "")>>

(***************************************************************************)
(* C37: no outbound application message is published unless connected()   *)
(* is true when the operation is called.  A channel write, sync of one     *)
(* channel, sync of all, notify, email, log and the heartbeat each make no *)
(* publish when _state is not CONNECTED or the transport is not connected, *)
(* and exactly one when the session is connected; a poll publishes a       *)
(* heartbeat only on a session that is connected and stays so in the pump. *)
(***************************************************************************)
Publishes(tr) == Count(tr, "publish")

\* the results of the outbound operations that record no error
SilentSendResults ==
  {syncVirtual(Cur, pin) : pin \in Pins}
    \cup {syncAll(Cur)}
    \cup {notify(Cur, m) : m \in Values}
    \cup {email(Cur, m, b) : m \in Values, b \in Values}
    \cup {log(Cur, m) : m \in Values}

WriteResults == {virtualWriteInternal(Cur, pin, v) : pin \in Pins, v \in Values}

C37_NoPublishUnlessConnected ==
  /\ \A r \in SilentSendResults \cup WriteResults \cup {sendHeartbeat(Cur)} :
       Publishes(r.trace) = (IF state = "CONNECTED" /\ mqttConnected THEN 1 ELSE 0)
  /\ \A dropped \in BOOLEAN, accept \in BOOLEAN :
       Heartbeats(run(Cur, dropped, accept).trace) > 0 =>
         state = "CONNECTED" /\ mqttConnected /\ ~dropped

C37_Witness ==
  /\ op = "notify"
  /\ trace = <<>>
  /\ state = "CONNECTED"
  /\ ~mqttConnected

(***************************************************************************)
(* C38: a channel write called while connected() is false sets Last Error  *)
(* to NOT_CONNECTED and leaves _state as it was; sync of one channel, sync *)
(* of all, notify, email and log called while connected() is false return  *)
(* without changing Last Error or _state.  None of them touches the        *)
(* transport or the timestamps.                                            *)
(***************************************************************************)
C38_WriteRecordsNotConnected ==
  ~connected(Cur) =>
    /\ \A r \in WriteResults : r = [Cur EXCEPT !.lastError = "NOT_CONNECTED"]
    /\ \A r \in SilentSendResults : r = Cur

C38_Witness ==
  /\ op = "virtualWrite"
  /\ trace = <<>>
  /\ lastError = "NOT_CONNECTED"
  /\ state = "ERROR"
  /\ mqttConnected

(***************************************************************************)
(* C39: ERROR is not absorbing for the scheduler.  With the transport not  *)
(* connected, the network joined and auto-reconnect enabled: a join        *)
(* attempt of a poll that fails (every one, or those the transport         *)
(* refuses: a token is set) moves _state from DISCONNECTED to ERROR; a     *)
(* poll in ERROR starts a join attempt iff the reconnect interval has      *)
(* elapsed, one at most, and calls no disconnect handler; and while the    *)
(* state stays ERROR the next attempt comes exactly one interval after     *)
(* the last one.                                                           *)
(***************************************************************************)
C39_Statement(refusedOnly) ==
  (~mqttConnected /\ wifiConnected /\ autoReconnect) =>
    \A dropped \in BOOLEAN, accept \in BOOLEAN :
      LET r == run(Cur, dropped, accept)
      IN  /\ ( /\ state = "DISCONNECTED"
               /\ Has(r.trace, Ev("connectMQTT.return", "false"))
               /\ refusedOnly => authToken # <<>> ) => r.state = "ERROR"
          /\ state = "ERROR" =>
               /\ JoinAttempted(r.trace)
                    <=> Elapsed(clock, lastReconnectAttempt) >= reconnectInterval
               /\ Count(r.trace, "connectMQTT") <= 1
               /\ DisconnectNotifications(r.trace) = 0
               /\ JoinAttempted(r.trace) => r.lastReconnectAttempt = clock
               /\ (JoinAttempted(r.trace) /\ r.state = "ERROR") =>
                    \A e \in 0..reconnectInterval, again \in BOOLEAN :
                      LET r2 == LaterPoll(r, e, FALSE, TRUE, again)
                      IN  /\ JoinAttempted(r2.trace) <=> e >= reconnectInterval
                          /\ DisconnectNotifications(r2.trace) = 0

C40_PollFromIdleJoins ==
  /\ Count(trace, "setupClient") = 0
  /\ state = "IDLE" =>
       \A dropped \in BOOLEAN, accept \in BOOLEAN :
         LET r == run(Cur, dropped, accept)
         IN  /\ ~mqttConnected
             /\ JoinAttempted(r.trace) <=>
                  /\ wifiConnected
                  /\ autoReconnect
                  /\ Elapsed(clock, lastReconnectAttempt) >= reconnectInterval
             /\ Count(r.trace, "setupClient") = 0
             /\ DisconnectNotifications(r.trace) = 0
             /\ (JoinAttempted(r.trace) /\ authToken # <<>> /\ accept) =>
                  /\ r.state = "CONNECTED"
                  /\ r.mqtt
                  /\ SelectSeq(r.trace, IsConnectNotification) =
                       ExpectedConnectNotifications
             /\ ~JoinAttempted(r.trace) => r.state = "IDLE"

C40_Witness ==
  /\ op = "run"
  /\ state = "CONNECTED"
  /\ mqttConnected
  /\ lastError = "NONE"
  /\ lastReconnectAttempt = reconnectInterval
  /\ clock = reconnectInterval
  /\ Has(trace, Ev("connectHandler", ""))
  /\ ~Has(trace, Ev("state", "DISCONNECTED"))

====
